---- MODULE Spec2Model ----
(***************************************************************************)
(* Model of the fuzzing tool's Device / Fuzzer remote-execution and        *)
(* log-symbolization subsystem (scripts/fuzzing/lib).                      *)
(*                                                                         *)
(* Text is modelled structurally:                                          *)
(*   - a path is the sequence of its components, an argument vector a      *)
(*     sequence of paths and words;                                        *)
(*   - a word of a directory listing is a sequence of one-character        *)
(*     strings;                                                            *)
(*   - a line of the component status listing is a record of the fields    *)
(*     the status pattern looks at.                                        *)
(***************************************************************************)
EXTENDS Integers, Sequences, FiniteSets, TLC

VARIABLES
    devOut,      \* the status listing ('cs') the device would print now
    pids,        \* Device._pids: [set |-> FALSE] is None, else the dict in map
    csEver,      \* history: a 'cs' command has been issued on this Device
    fpid,        \* Fuzzer._pid
    libInputs,   \* Fuzzer._libfuzzer_inputs
    foreground,  \* Fuzzer._foreground
    options,     \* Fuzzer._options
    stream,      \* the lines fd_in.readline yields to the symbolization pipeline
    echo,        \* the pipeline's echo argument
    pipe,        \* what the pipeline did with stream
    lsOut,       \* what 'ls -l' prints for the listed device directory
    lsres,       \* the most recent listing call and its result
    mon,         \* the call of Fuzzer.monitor() in progress, if any
    display,     \* what the commands reported to the user (host echo)
    sysOut,      \* what the filtered syslog dump of the device prints now
    fuzzers,     \* Host._fuzzers
    hostres,     \* the latest Host call: its arguments and what it returned
    cmdres,      \* the latest command invocation: its arguments and the calls it made
    attrs,       \* Device._ssh_verbosity, Fuzzer._output, and the host's directories
    given,       \* the host's files (glob) and the arguments of the most recent store/repro call
    last         \* record of the most recent step (call, inputs, outcome)

vars == <<devOut, pids, csEver, fpid, libInputs, foreground, options, stream, echo, pipe,
          lsOut, lsres, mon, display, given, sysOut, fuzzers, hostres, cmdres, attrs, last>>

-----------------------------------------------------------------------------
(* Bounds *)

MaxCsLines == 2      \* lines in a status listing
MaxInputs == 2       \* entries in the fuzzer's libFuzzer input list
MaxSubprocessArgs == 2   \* arguments after '--' for the fuzzer subprocess
MaxItems == 2        \* keys in the items of one Fuzzer.update call
MaxStream == 3       \* lines in a fuzzer log stream
MaxLsLines == 2      \* lines in a directory listing
MaxSeg == 2          \* characters in a path segment
MaxSegments == 2     \* segments given to fxpath
MaxExecs == 2        \* executables in a manifest record
MaxRecords == 1      \* records in a manifest
MaxCatalog == 3      \* entries in the fuzzer catalog

(* Program constants *)

NotFound == -1       \* dict.get default of Device.getpid
NoPid == -2          \* encodes Fuzzer._pid = None

FuzzPackage == "foo"
FuzzExecutable == "bar"
Packages == {"foo"}
Executables == {"bar", "baz"}
Pairs == Packages \X Executables
PidValues == {111, 222}

-----------------------------------------------------------------------------
(* Sequences helpers *)

SeqsUpTo(S, n) == UNION {[1..k -> S] : k \in 0..n}

-----------------------------------------------------------------------------
(* Device.getpid *)

\* A line of the status listing.  kind "cs" renders as
\*   <indent spaces><exe>.cmx[<pid text>]: fuchsia-pkg://fuchsia.com/<pkg>#meta/<exe2>.cmx
\* where the pid text is the decimal pid when digits is TRUE and a
\* non-numeric text otherwise; kind "junk" is any other text (such as the
\* empty line that follows the final newline).
CsLine(kind, indent, exe, digits, pid, pkg, exe2) ==
    [kind |-> kind, indent |-> indent, exe |-> exe, digits |-> digits,
     pid |-> pid, pkg |-> pkg, exe2 |-> exe2]

GoodCsLines ==
    {CsLine("cs", 2, e, TRUE, p, k, e) : e \in Executables, p \in PidValues, k \in Packages}

BadCsLines ==
    { CsLine("junk", 0, "bar", FALSE, 111, "foo", "bar"),
      CsLine("cs", 2, "bar", TRUE, 111, "foo", "baz"),
      CsLine("cs", 2, "bar", FALSE, 111, "foo", "bar") }

CsLines == GoodCsLines \cup BadCsLines

CsOutputs == SeqsUpTo(CsLines, MaxCsLines)

\* re.match(pat, line): two leading spaces, \d+ for the pid, and the
\* backreference (?P=executable) after '#meta/'.
CsMatchNoBackref(line) ==
    /\ line.kind = "cs"
    /\ line.indent = 2
    /\ line.digits

CsMatch(line) ==
    /\ line.kind = "cs"
    /\ line.indent = 2
    /\ line.digits
    /\ line.exe = line.exe2

EmptyMap == [p \in {} |-> 0]

MapPut(map, key, val) ==
    [p \in (DOMAIN map) \cup {key} |-> IF p = key THEN val ELSE map[p]]

MapGet(map, key, default) == IF key \in DOMAIN map THEN map[key] ELSE default

\* The loop over str(out).split('\n'), lines i..Len(out), updating the dict.
RECURSIVE ParseCsFrom(_, _, _)
ParseCsFrom(map, out, i) ==
    IF i > Len(out) THEN map
    ELSE IF ~CsMatch(out[i]) THEN ParseCsFrom(map, out, i + 1)
    ELSE ParseCsFrom(MapPut(map, <<out[i].pkg, out[i].exe>>, out[i].pid), out, i + 1)

NonePids == [set |-> FALSE, map |-> EmptyMap]

RebuildMerging(cache) == cache.map

\* self._pids = {} at the start of a rebuild
RebuildStart(cache) == EmptyMap

NeedsCsIgnoringRefresh(cache, refresh) == ~cache.set

\* if self._pids == None or refresh
NeedsCs(cache, refresh) == ~cache.set \/ refresh

\* self._pids.get((package, executable), -1)
GetOrNotFound(map, key) == MapGet(map, key, NotFound)

\* Device.getpid(package, executable, refresh) against a device whose status
\* listing is out; ok = FALSE when the ssh invocation fails (check_output
\* raises CalledProcessError).  Returns the new cache, the number of 'cs'
\* commands issued, the outcome and the returned pid.
getpid(cache, package, executable, refresh, out, ok) ==
    IF NeedsCs(cache, refresh)
    THEN IF ok
         THEN LET map == ParseCsFrom(RebuildStart(cache), out, 1) IN
              [pids |-> [set |-> TRUE, map |-> map], cs |-> 1, outcome |-> "ok",
               ret |-> GetOrNotFound(map, <<package, executable>>)]
         ELSE [pids |-> [set |-> TRUE, map |-> RebuildStart(cache)], cs |-> 1,
               outcome |-> "CalledProcessError", ret |-> NotFound]
    ELSE [pids |-> cache, cs |-> 0, outcome |-> "ok",
          ret |-> GetOrNotFound(cache.map, <<package, executable>>)]

-----------------------------------------------------------------------------
(* Remote and host commands, as the Command Channel receives them *)

\* One invocation: the program run and its arguments after the constant
\* transport prefix (ssh options and device address); every argument is a
\* sequence of strings.
Cmd(name, argv) == [name |-> name, argv |-> argv]

CsCmd == Cmd("cs", <<>>)

CsCmds(n) == IF n > 0 THEN <<CsCmd>> ELSE <<>>

-----------------------------------------------------------------------------
(* Fuzzer: running state *)

\* cli.error(...): prints the message and ends the command.
CliError(message) == message

IsRunningMessage == "is running and must be stopped first."

\* Fuzzer.data_path(relpath), for the fuzzer foo/bar:
\* '/data/r/sys/fuchsia.com:foo:0#meta:bar.cmx/' + relpath, as path components.
\* The default relpath '' leaves an empty last component (a trailing '/').
data_path(relpath) ==
    <<"data", "r", "sys", "fuchsia.com:foo:0#meta:bar.cmx", relpath>>

\* Fuzzer.is_running(refresh): the device's answer, the pid stored in
\* Fuzzer._pid and the truth value returned.
is_runningTruthy(cache, refresh, out, ok) ==
    LET r == getpid(cache, FuzzPackage, FuzzExecutable, refresh, out, ok) IN
    [pids |-> r.pids, cs |-> r.cs, outcome |-> r.outcome, ret |-> r.ret,
     running |-> (r.outcome = "ok" /\ r.ret # 0)]

is_running(cache, refresh, out, ok) ==
    LET r == getpid(cache, FuzzPackage, FuzzExecutable, refresh, out, ok) IN
    [pids |-> r.pids, cs |-> r.cs, outcome |-> r.outcome, ret |-> r.ret,
     running |-> (r.outcome = "ok" /\ r.ret > 0)]

\* start() calls self.require_stopped(): refresh keeps its default, False
StartRefreshFlag == FALSE

\* Fuzzer.start() up to the removal of stale logs.  require_stopped() ends
\* the command through cli.error when is_running reports true; otherwise
\* start() goes on to self.device.rm(logs), and Device defines remove() but
\* no rm(), so the call raises AttributeError before any command is issued.
start(cache, out, ok) ==
    LET r == is_running(cache, StartRefreshFlag, out, ok) IN
    [pids |-> r.pids, cs |-> r.cs, ret |-> r.ret,
     outcome |-> IF r.outcome # "ok" THEN r.outcome
                 ELSE IF r.running THEN CliError(IsRunningMessage)
                 ELSE "AttributeError",
     cmds |-> CsCmds(r.cs)]

-----------------------------------------------------------------------------
(* Device.mkdir, Device.store *)

\* A remote or host invocation fails (raises CalledProcessError from
\* check_call) when it is the fail-th invocation of the operation; fail = 0
\* means none fails.  n is the number of invocations issued before it.
Fails(n, fail) == n + 1 = fail

\* Device.mkdir(pathname): ssh mkdir -p <pathname>
MkdirCmd(pathname) == Cmd("mkdir", <<<<"-p">>, pathname>>)

\* Device.scp_rpath(pathname): '[<addr>]:<pathname>'
scp_rpath(pathname) == <<"[addr]:">> \o pathname

ScpCmd(srcs, dst) == Cmd("scp", srcs \o <<dst>>)

GlobAllFirstOnly(args, glob, i) == IF args = <<>> THEN <<>> ELSE glob[args[1]]

RECURSIVE GlobAll(_, _, _)
\* host_srcs += self.cli.glob(host_src) for every host_src in args
GlobAll(args, glob, i) ==
    IF i > Len(args) THEN <<>> ELSE glob[args[i]] \o GlobAll(args, glob, i + 1)

\* Device.store(device_dst, *args): glob maps each host pattern to the host
\* files it matches; n invocations were issued before the call.
store(device_dst, args, glob, n, fail) ==
    LET mk == <<MkdirCmd(device_dst)>>
        host_srcs == GlobAll(args, glob, 1)
        cp == <<ScpCmd(host_srcs, scp_rpath(device_dst))>>
    IN  IF Fails(n, fail)
        THEN [outcome |-> "CalledProcessError", cmds |-> mk, ret |-> <<>>]
        ELSE IF host_srcs = <<>>
        THEN [outcome |-> "ok", cmds |-> mk, ret |-> <<>>]
        ELSE IF Fails(n + 1, fail)
        THEN [outcome |-> "CalledProcessError", cmds |-> mk \o cp, ret |-> <<>>]
        ELSE [outcome |-> "ok", cmds |-> mk \o cp, ret |-> host_srcs]

-----------------------------------------------------------------------------
(* Fuzzer._create, Fuzzer.repro *)

\* self._options = {'artifact_prefix': 'data/'}
InitOptions == [k \in {"artifact_prefix"} |-> "data/"]

\* The option keys in sorted() order.
OptionKeyOrder ==
    <<"artifact_prefix", "dict", "handle_abrt", "handle_bus", "handle_fpe", "handle_ill",
      "handle_segv", "jobs">>

\* Fuzzer.url()
url == <<"fuchsia-pkg://fuchsia.com/", FuzzPackage, "#meta/", FuzzExecutable, ".cmx">>

\* if not self.foreground: self._options['jobs'] = '1'
CreateOptions(opts, fg) == IF fg THEN opts ELSE MapPut(opts, "jobs", "1")

RECURSIVE OptionArgs(_, _)
\* '-key=value' for every option, in sorted key order, from the i-th key on
OptionArgs(opts, i) ==
    IF i > Len(OptionKeyOrder) THEN <<>>
    ELSE LET k == OptionKeyOrder[i] IN
         (IF k \in DOMAIN opts THEN << <<"-", k, "=", opts[k]>> >> ELSE <<>>)
             \o OptionArgs(opts, i + 1)

\* if self._subprocess_args: fuzz_cmd += ['--']; fuzz_cmd += self._subprocess_args
SubprocessPart(subprocess_args) ==
    IF subprocess_args = <<>> THEN <<>> ELSE <<"--">> \o subprocess_args

\* Fuzzer.DEBUG_OPTIONS
DEBUG_OPTIONS == {"handle_segv", "handle_bus", "handle_ill", "handle_fpe", "handle_abrt"}

\* for option in Fuzzer.DEBUG_OPTIONS: if self.debug: self._options[option] = '0'
DebugOptions(opts, debug) ==
    IF debug
    THEN [k \in (DOMAIN opts) \cup DEBUG_OPTIONS |-> IF k \in DEBUG_OPTIONS THEN "0" ELSE opts[k]]
    ELSE opts

\* An update that keeps the value a key already has.
MapUpdateKeepingOld(map, other) ==
    [k \in (DOMAIN map) \cup (DOMAIN other) |-> IF k \in DOMAIN map THEN map[k] ELSE other[k]]

\* dict.update(other)
MapUpdate(map, other) ==
    [k \in (DOMAIN map) \cup (DOMAIN other) |-> IF k \in DOMAIN other THEN other[k] ELSE map[k]]

\* self._options after _create: the defaults, the debug options, then
\* self._options.update(self._libfuzzer_opts).
CreateOptionsWith(opts, fg, debug, libfuzzer_opts) ==
    MapUpdate(DebugOptions(CreateOptions(opts, fg), debug), libfuzzer_opts)

\* Fuzzer._create(): the run command.
create(opts, fg, debug, libfuzzer_opts, inputs, subprocess_args) ==
    Cmd("run", <<url>> \o OptionArgs(CreateOptionsWith(opts, fg, debug, libfuzzer_opts), 1)
                   \o inputs \o SubprocessPart(subprocess_args))

\* os.path.basename(name)
basename(name) == name[Len(name)]

RECURSIVE Namespaced(_, _)
\* os.path.join('data', os.path.basename(name)) for every name in inputs
Namespaced(names, i) ==
    IF i > Len(names) THEN <<>>
    ELSE << <<"data", basename(names[i])>> >> \o Namespaced(names, i + 1)

NoUnitsMessage == "No units provided."
NoMatchMessage == "No matching files"

RECURSIVE ReproLoop(_, _, _, _, _, _)
\* The loop of repro() over self._libfuzzer_inputs from the i-th pattern on;
\* each pattern is handed to Device.store as its first argument and the
\* data path as its second: self.device.store(pattern, self.data_path()).
ReproLoop(inputs, i, glob, fail, cmds, namespaced) ==
    IF i > Len(inputs)
    THEN [outcome |-> "ok", cmds |-> cmds, namespaced |-> namespaced]
    ELSE LET r == store(inputs[i], <<data_path("")>>, glob, Len(cmds), fail) IN
         IF r.outcome # "ok"
         THEN [outcome |-> r.outcome, cmds |-> cmds \o r.cmds, namespaced |-> namespaced]
         ELSE IF r.ret = <<>>
         THEN [outcome |-> CliError(NoMatchMessage), cmds |-> cmds \o r.cmds,
               namespaced |-> namespaced]
         ELSE ReproLoop(inputs, i + 1, glob, fail, cmds \o r.cmds,
                        namespaced \o Namespaced(r.ret, 1))

ReproGuardMissing(inputs) == FALSE

\* if not self._libfuzzer_inputs
ReproGuard(inputs) == inputs = <<>>

\* Fuzzer.repro(): outcome, the commands issued, and the fuzzer's input list,
\* foreground flag and options afterwards.
repro(inputs, fg, opts, glob, fail, debug, libfuzzer_opts, subprocess_args) ==
    IF ReproGuard(inputs)
    THEN [outcome |-> CliError(NoUnitsMessage), cmds |-> <<>>, inputs |-> inputs,
          foreground |-> fg, options |-> opts]
    ELSE LET r == ReproLoop(inputs, 1, glob, fail, <<>>, <<>>) IN
         IF r.outcome # "ok"
         THEN [outcome |-> r.outcome, cmds |-> r.cmds, inputs |-> inputs,
               foreground |-> fg, options |-> opts]
         ELSE [outcome |-> "ok",
               cmds |-> Append(r.cmds, create(opts, TRUE, debug, libfuzzer_opts,
                                              r.namespaced, subprocess_args)),
               inputs |-> r.namespaced, foreground |-> TRUE,
               options |-> CreateOptionsWith(opts, TRUE, debug, libfuzzer_opts)]

-----------------------------------------------------------------------------
(* Device.dump_log, Device.guess_pid, Device.fetch, Host.symbolize *)

\* int(text) for the decimal texts that occur
DecimalValue(text) ==
    CASE text = "0" -> 0 [] text = "111" -> 111 [] text = "222" -> 222
      [] text = "333" -> 333

IsDecimal(text) == text \in {"0", "111", "222", "333"}

\* str(n) for the pids that occur
str(n) ==
    CASE n = -1 -> "-1" [] n = 0 -> "0" [] n = 111 -> "111" [] n = 222 -> "222"
      [] n = 333 -> "333"

\* Device.dump_log(*args): ssh log_listener --dump_logs yes --pretty no <args>
DumpLogCmd(args) ==
    Cmd("log_listener", << <<"--dump_logs">>, <<"yes">>, <<"--pretty">>, <<"no">> >> \o args)

\* A syslog line is the sequence of its parts between '][' separators:
\* '[<timestamp>][<pid>][<tid>][<name>] <data>' has four.
RECURSIVE GuessFrom(_, _, _)
\* the loop of guess_pid over out.split('\n'), from the i-th line on
GuessFrom(pid, syslog, i) ==
    IF i > Len(syslog) THEN [outcome |-> "ok", pid |-> pid]
    ELSE IF Len(syslog[i]) > 2
    THEN IF IsDecimal(syslog[i][2])
         THEN GuessFrom(DecimalValue(syslog[i][2]), syslog, i + 1)
         ELSE [outcome |-> "ValueError", pid |-> pid]
    ELSE GuessFrom(pid, syslog, i + 1)

\* Device.guess_pid(): syslog is what the filtered dump prints.
guess_pid(syslog, n, fail) ==
    LET cmd == DumpLogCmd(<< <<"--only">>, <<"reset,Fuzzer,Sanitizer">> >>) IN
    IF Fails(n, fail)
    THEN [outcome |-> "CalledProcessError", pid |-> NotFound, cmds |-> <<cmd>>]
    ELSE LET g == GuessFrom(NotFound, syslog, 1) IN
         [outcome |-> g.outcome, pid |-> g.pid, cmds |-> <<cmd>>]

\* Device.fetch(host_dst, *args): hostDirs are the host's directories.
fetch(host_dst, args, hostDirs, n, fail) ==
    IF host_dst \notin hostDirs
    THEN [outcome |-> "ValueError", cmds |-> <<>>]
    ELSE LET cmd == ScpCmd([i \in 1..Len(args) |-> scp_rpath(args[i])], host_dst) IN
         [outcome |-> IF Fails(n, fail) THEN "CalledProcessError" ELSE "ok",
          cmds |-> <<cmd>>]

\* A line of symbolizer output: klog is TRUE when the line carries a
\* '[<digits>.<digits>][klog] INFO: ' prefix.
SymLine(klog, text) == [klog |-> klog, text |-> text]

RECURSIVE StripKlog(_, _)
\* re.sub(r'[0-9\[\]\.]*\[klog\] INFO: ', '', out)
StripKlog(lines, i) ==
    IF i > Len(lines) THEN <<>>
    ELSE <<SymLine(FALSE, lines[i].text)>> \o StripKlog(lines, i + 1)

\* A symbolize that keeps the output of a symbolizer that exited nonzero.
symbolizeKeepingFailedOutput(run) ==
    StripKlog(run.out, 1)

\* Host.symbolize(raw): run is what the symbolizer process did, its exit
\* status rc and its standard output out.
symbolize(run) ==
    StripKlog(IF run.rc # 0 THEN <<>> ELSE run.out, 1)

-----------------------------------------------------------------------------
(* Fuzzer._symbolize_log_impl *)

\* A line of the fuzzer log.  head is "pid" for a line starting
\* '==<text>==' with a decimal text, "ms" for a line starting 'MS: ', and
\* "other" for any other start; hasArt is TRUE when the line contains
\* 'Test unit written to data/<art>'.
PLine(head, text, hasArt, art) ==
    [head |-> head, text |-> text, hasArt |-> hasArt, art |-> art]

\* Fuzzer._output: fxpath('local', 'foo_bar')
output == <<"fuchsia_dir", "local", "foo_bar">>

\* What the symbolizer prints when it succeeds.
SymbolizerOut == <<SymLine(TRUE, "#0 frame"), SymLine(FALSE, "#1 frame")>>

\* The n-th run of the symbolizer in a stream whose first symFails runs exit
\* with a nonzero status.
SymRun(symFails, n) ==
    [rc |-> IF n <= symFails THEN 1 ELSE 0, out |-> SymbolizerOut]

\* An entry of the output log or of the display: the symbolized block (kind
\* "sym") written at line at, or the raw line at (kind "line").
Written(kind, at, text) == [kind |-> kind, at |-> at, text |-> text]

\* What cli.echo(text.strip()) shows for an entry: its text without the
\* surrounding whitespace.
Echoed(w) == [kind |-> w.kind, at |-> w.at, text |-> w.text, stripped |-> TRUE]

\* An echo that does not look at the echo flag.
EchoAlways(shown, echoed, w) == Append(shown, Echoed(w))

\* if echo: self.device.host.cli.echo(text.strip())
EchoTo(shown, echoed, w) == IF echoed THEN Append(shown, Echoed(w)) ELSE shown

NoSym == [set |-> FALSE, text |-> <<>>]

\* if not sym: None and the empty string both count as not symbolized
NotSym(sym) == ~sym.set \/ sym.text = <<>>

\* The local state of _symbolize_log_impl before the first line.
PipeStart ==
    [pid |-> NotFound, sym |-> NoSym, artifacts |-> <<>>, out |-> <<>>,
     display |-> <<>>, cmds |-> <<>>, symCalls |-> 0, outcome |-> "ok"]

\* The 'if mut_match:' block at line i: guess the pid when none is known,
\* then fetch and symbolize the syslog unless sym is set.
MutBlock(st, i, echoed, env) ==
    LET g == IF st.pid <= 0
             THEN guess_pid(env.syslog, Len(st.cmds), env.fail)
             ELSE [outcome |-> "ok", pid |-> st.pid, cmds |-> <<>>]
        st1 == [st EXCEPT !.pid = g.pid, !.cmds = st.cmds \o g.cmds, !.outcome = g.outcome]
    IN  IF g.outcome # "ok" THEN [st1 EXCEPT !.pid = st.pid]
        ELSE IF ~NotSym(st1.sym) THEN st1
        ELSE LET dump == DumpLogCmd(<< <<"--pid", str(st1.pid)>> >>)
                 st2 == [st1 EXCEPT !.cmds = st1.cmds \o <<dump>>]
             IN  IF Fails(Len(st1.cmds), env.fail)
                 THEN [st2 EXCEPT !.outcome = "CalledProcessError"]
                 ELSE LET text == symbolize(SymRun(env.symFails, st2.symCalls + 1)) IN
                      [st2 EXCEPT !.sym = [set |-> TRUE, text |-> text],
                                  !.symCalls = st2.symCalls + 1,
                                  !.out = Append(st2.out, Written("sym", i, text)),
                                  !.display = EchoTo(st2.display, echoed,
                                                     Written("sym", i, text))]

\* One pass of the 'for line in iter(fd_in.readline, "")' loop, on line i.
PipeLine(st, line, i, echoed, env) ==
    LET st1 == IF line.head = "pid" THEN [st EXCEPT !.pid = DecimalValue(line.text)] ELSE st
        st2 == IF line.head = "ms" THEN MutBlock(st1, i, echoed, env) ELSE st1
    IN  IF st2.outcome # "ok" THEN st2
        ELSE [st2 EXCEPT
                !.artifacts = IF line.hasArt THEN Append(st2.artifacts, line.art)
                              ELSE st2.artifacts,
                !.out = Append(st2.out, Written("line", i, <<>>)),
                !.display = EchoTo(st2.display, echoed, Written("line", i, <<>>))]

RECURSIVE PipeLoop(_, _, _, _, _)
PipeLoop(st, lines, i, echoed, env) ==
    IF i > Len(lines) \/ st.outcome # "ok" THEN st
    ELSE PipeLoop(PipeLine(st, lines[i], i, echoed, env), lines, i + 1, echoed, env)

RECURSIVE FetchLoop(_, _, _)
\* for artifact in artifacts: self.device.fetch(self.data_path(artifact), self.output)
FetchLoop(st, i, env) ==
    IF i > Len(st.artifacts) \/ st.outcome # "ok" THEN st
    ELSE LET r == fetch(data_path(st.artifacts[i]), <<output>>, env.hostDirs,
                        Len(st.cmds), env.fail) IN
         FetchLoop([st EXCEPT !.cmds = st.cmds \o r.cmds, !.outcome = r.outcome], i + 1, env)

\* Fuzzer._symbolize_log_impl(fd_in, fd_out, echo): the final local state,
\* with the value returned (sym != None) when the call completes.
symbolize_log_impl(lines, echoed, env) ==
    LET st == FetchLoop(PipeLoop(PipeStart, lines, 1, echoed, env), 1, env) IN
    [pc |-> "done", outcome |-> st.outcome, ret |-> (st.outcome = "ok" /\ st.sym.set),
     artifacts |-> st.artifacts, out |-> st.out, display |-> st.display,
     cmds |-> st.cmds, symCalls |-> st.symCalls, env |-> env]

\* Fuzzer.__init__ assigns no _logbase, and nothing else does before _logfile
\* reads it.
LogbaseDefined == FALSE

\* What symbolize_log returns once _symbolize_log_impl has returned r: the
\* same value, its log written, the link call not reached.
symbolize_log_return(r) ==
    [outcome |-> r.outcome, ret |-> r.ret, ran |-> TRUE, linked |-> FALSE]

\* Fuzzer.symbolize_log(fd_in, job_num, echo): filename_out =
\* self._logfile(job_num) comes first, and _logfile starts with
\* 'if not self._logbase', which raises AttributeError; with the attribute
\* the call would return what _symbolize_log_impl returns, from inside the
\* 'with' block, so that the link call after the block is never reached.
symbolize_log(lines, echoed, env) ==
    IF ~LogbaseDefined
    THEN [outcome |-> "AttributeError", ret |-> FALSE, ran |-> FALSE, linked |-> FALSE]
    ELSE symbolize_log_return(symbolize_log_impl(lines, echoed, env))

NoEnv == [syslog |-> <<>>, symFails |-> 0, hostDirs |-> {}, fail |-> 0]

NoPipe ==
    [pc |-> "ready", outcome |-> "ok", ret |-> FALSE, artifacts |-> <<>>, out |-> <<>>,
     display |-> <<>>, cmds |-> <<>>, symCalls |-> 0, env |-> NoEnv]

-----------------------------------------------------------------------------
(* Device.ls, Fuzzer.measure_corpus, Fuzzer.list_artifacts *)

\* A listing line is the sequence of its words (line.split()), a word the
\* sequence of its characters.
Digits == {"0", "1", "2", "3", "4", "5", "6", "7", "8", "9"}

DigitValue(c) ==
    CASE c = "0" -> 0 [] c = "1" -> 1 [] c = "2" -> 2 [] c = "3" -> 3 [] c = "4" -> 4
      [] c = "5" -> 5 [] c = "6" -> 6 [] c = "7" -> 7 [] c = "8" -> 8 [] c = "9" -> 9

RECURSIVE DecimalOf(_, _, _)
\* the value of the digits word[i..], after the value acc of those before
DecimalOf(word, i, acc) ==
    IF i > Len(word) THEN acc ELSE DecimalOf(word, i + 1, 10 * acc + DigitValue(word[i]))

Signed(word) == word # <<>> /\ word[1] \in {"+", "-"}

\* int(word) succeeds: an optional sign, then one or more digits
IsInt(word) ==
    LET body == IF Signed(word) THEN Tail(word) ELSE word IN
    body # <<>> /\ \A i \in 1..Len(body) : body[i] \in Digits

\* int(word)
IntOf(word) ==
    IF Signed(word)
    THEN (IF word[1] = "-" THEN -1 ELSE 1) * DecimalOf(Tail(word), 1, 0)
    ELSE DecimalOf(word, 1, 0)

RECURSIVE JoinFrom(_, _)
\* ' '.join(parts[i:])
JoinFrom(parts, i) ==
    IF i > Len(parts) THEN <<>>
    ELSE IF i = Len(parts) THEN parts[i]
    ELSE parts[i] \o <<" ">> \o JoinFrom(parts, i + 1)

LsCmd(path) == Cmd("ls", << <<"-l">>, path >>)

\* if len(parts) > 8
LsEntry(parts) == Len(parts) > 8

RECURSIVE LsFrom(_, _, _)
\* the loop of ls over str(out).split('\n'), from the i-th line on;
\* int(parts[4]) raises ValueError on a word that is no number
LsFrom(results, out, i) ==
    IF i > Len(out) THEN [outcome |-> "ok", ret |-> results]
    ELSE IF ~LsEntry(out[i]) THEN LsFrom(results, out, i + 1)
    ELSE IF ~IsInt(out[i][5]) THEN [outcome |-> "ValueError", ret |-> EmptyMap]
    ELSE LsFrom(MapPut(results, JoinFrom(out[i], 9), IntOf(out[i][5])), out, i + 1)

LsFailurePropagates(r) == r

\* except subprocess.CalledProcessError: pass
LsFailureCaught(r) == [outcome |-> "ok", ret |-> EmptyMap]

\* Device.ls(path): out is what the command prints, ok = FALSE when it
\* exits with a nonzero status.
ls(path, out, ok) ==
    LET r == IF ok THEN LsFrom(EmptyMap, out, 1)
             ELSE LsFailureCaught([outcome |-> "CalledProcessError", ret |-> EmptyMap])
    IN  [outcome |-> r.outcome, ret |-> r.ret, cmds |-> <<LsCmd(path)>>]

RECURSIVE SumOver(_, _)
\* sum(sizes.values())
SumOver(sizes, keys) ==
    IF keys = {} THEN 0
    ELSE LET k == CHOOSE k \in keys : TRUE IN sizes[k] + SumOver(sizes, keys \ {k})

\* Fuzzer.measure_corpus()
measure_corpus(out, ok) ==
    LET r == ls(data_path("corpus"), out, ok) IN
    [outcome |-> r.outcome, cmds |-> r.cmds,
     ret |-> <<Cardinality(DOMAIN r.ret), SumOver(r.ret, DOMAIN r.ret)>>]

\* Fuzzer.ARTIFACT_PREFIXES
ARTIFACT_PREFIXES ==
    << <<"c", "r", "a", "s", "h">>, <<"l", "e", "a", "k">>,
       <<"m", "i", "s", "m", "a", "t", "c", "h">>, <<"o", "o", "m">>,
       <<"s", "l", "o", "w", "-", "u", "n", "i", "t">>,
       <<"t", "i", "m", "e", "o", "u", "t">> >>

\* A test that finds the prefix anywhere in the name.
startsAnywhere(file, prefix) ==
    \E k \in 1..Len(file) :
        k + Len(prefix) - 1 <= Len(file) /\ SubSeq(file, k, k + Len(prefix) - 1) = prefix

\* file.startswith(prefix)
startswith(file, prefix) ==
    Len(prefix) <= Len(file) /\ SubSeq(file, 1, Len(prefix)) = prefix

RECURSIVE PrefixHits(_, _)
\* one append of file for every prefix, from the i-th on, that it starts with
PrefixHits(file, i) ==
    IF i > Len(ARTIFACT_PREFIXES) THEN <<>>
    ELSE (IF startswith(file, ARTIFACT_PREFIXES[i]) THEN <<file>> ELSE <<>>)
             \o PrefixHits(file, i + 1)

RECURSIVE ArtifactsIn(_, _)
\* the loop of list_artifacts over the files in the order the dict yields them
ArtifactsIn(files, i) ==
    IF i > Len(files) THEN <<>> ELSE PrefixHits(files[i], 1) \o ArtifactsIn(files, i + 1)

\* The orders in which a dict with these keys may yield them.
Orders(keys) ==
    {f \in [1..Cardinality(keys) -> keys] : \A i, j \in DOMAIN f : i # j => f[i] # f[j]}

\* Fuzzer.list_artifacts(), the dict yielding its keys in the given order
list_artifacts(out, ok, order) ==
    LET r == ls(data_path(""), out, ok) IN
    [outcome |-> r.outcome, cmds |-> r.cmds,
     ret |-> IF r.outcome = "ok" THEN ArtifactsIn(order, 1) ELSE <<>>]

\* The record of a listing call: op, whether the command succeeded, the
\* outcome, and the value returned by ls, by measure_corpus (count, bytes)
\* and by list_artifacts.
LsResult(op, ok, outcome, map, measure, artifacts, cmds) ==
    [op |-> op, ok |-> ok, outcome |-> outcome, map |-> map, measure |-> measure,
     artifacts |-> artifacts, cmds |-> cmds]

NoLs == LsResult("none", TRUE, "ok", EmptyMap, <<0, 0>>, <<>>, <<>>)

-----------------------------------------------------------------------------
(* Properties of the status listing, stated on the listing itself *)

\* The line has the documented form
\*   '  <executable>.cmx[<pid>]: fuchsia-pkg://fuchsia.com/<package>#meta/<executable>.cmx'
\* for the given (package, executable).
StatusLineOf(line, pair) ==
    /\ line.kind = "cs" /\ line.indent = 2 /\ line.digits
    /\ line.pkg = pair[1] /\ line.exe = pair[2] /\ line.exe2 = pair[2]

StatusLineAt(out, pair) == {i \in 1..Len(out) : StatusLineOf(out[i], pair)}

\* The pid the listing gives for pair: that of its last line for pair.
ListedPid(out, pair) ==
    LET at == StatusLineAt(out, pair) IN
    IF at = {} THEN NotFound
    ELSE out[CHOOSE i \in at : \A j \in at : j <= i].pid

CountCmds(cmds, name) == Cardinality({i \in 1..Len(cmds) : cmds[i].name = name})

-----------------------------------------------------------------------------
(* Fuzzer.stop, the 'stop' command *)

\* ssh kill <pid>
KillCmd(pid) == Cmd("kill", << <<str(pid)>> >>)

\* stop() calls self.is_running(): refresh keeps its default, False
StopRefreshFlag == FALSE

\* Fuzzer.stop(): the status check, then the kill of the pid it stored in
\* Fuzzer._pid when it is positive.  killOk: the kill command exits with 0.
stop(cache, out, ok, killOk) ==
    LET r == is_running(cache, StopRefreshFlag, out, ok) IN
    [pids |-> r.pids, cs |-> r.cs, ret |-> r.ret,
     outcome |-> IF r.outcome # "ok" THEN r.outcome
                 ELSE IF r.running /\ ~killOk THEN "CalledProcessError"
                 ELSE "ok",
     cmds |-> CsCmds(r.cs) \o (IF r.running THEN <<KillCmd(r.ret)>> ELSE <<>>)]

\* Factory (lib/factory.py) has the property cli and no attribute host, so
\* evaluating factory.host raises AttributeError.
FactoryHasHost == FALSE

\* Device (lib/device.py) defines no buildenv.
DeviceHasBuildenv == FALSE

\* factory.create_fuzzer(args): it creates the Device and then evaluates
\* device.buildenv, before the Fuzzer is constructed.
create_fuzzer == IF ~DeviceHasBuildenv THEN "AttributeError" ELSE "ok"

StoppingMessage == "Stopping"
AlreadyStoppedMessage == "is already stopped."

\* command.stop_fuzzer(args, factory): factory.create_fuzzer comes first and
\* fails on its new Device (cache None), before a Fuzzer exists and before
\* any command; on a Fuzzer, fuzzer.is_running() would decide between the
\* two branches, and each of them starts by evaluating factory.host.
stop_fuzzer(out, ok, killOk) ==
    LET r == is_running(NonePids, FALSE, out, ok) IN
    IF create_fuzzer # "ok"
    THEN [pids |-> NonePids, cs |-> 0, ret |-> NoPid, outcome |-> create_fuzzer,
          cmds |-> <<>>, shown |-> <<>>]
    ELSE IF r.outcome # "ok"
    THEN [pids |-> r.pids, cs |-> r.cs, ret |-> r.ret, outcome |-> r.outcome,
          cmds |-> CsCmds(r.cs), shown |-> <<>>]
    ELSE IF ~FactoryHasHost
    THEN [pids |-> r.pids, cs |-> r.cs, ret |-> r.ret, outcome |-> "AttributeError",
          cmds |-> CsCmds(r.cs), shown |-> <<>>]
    ELSE IF r.running
    THEN LET s == stop(r.pids, out, ok, killOk) IN
         [pids |-> s.pids, cs |-> r.cs + s.cs, ret |-> s.ret, outcome |-> s.outcome,
          cmds |-> CsCmds(r.cs) \o s.cmds, shown |-> <<StoppingMessage>>]
    ELSE [pids |-> r.pids, cs |-> r.cs, ret |-> r.ret, outcome |-> "ok",
          cmds |-> CsCmds(r.cs), shown |-> <<AlreadyStoppedMessage>>]

-----------------------------------------------------------------------------
(* Fuzzer.monitor *)

MaxPolls == 2        \* poll iterations counted by the monitor record

\* The background logs a run may have left in the fuzzer's device namespace,
\* and the 'fuzz-*.log' files an earlier run may have left in the output
\* directory on the host.
DeviceLogs == {"fuzz-0.log", "fuzz-1.log"}
HostLogs == {"fuzz-2020-01-01-0000-0.log"}

\* The state of one monitor() call: where it is (pc), how many times it has
\* polled, what its last poll did (cs: status commands issued, running: its
\* answer, listed: the pid the device listed at that moment), whether a
\* remote command failed, how it ended, the commands it issued besides the
\* status checks, the logs it symbolized and the host files it removed.
Mon(pc, polls, cs, running, listed, failed, outcome, devLogs, hostLogs) ==
    [pc |-> pc, polls |-> polls, cs |-> cs, running |-> running, listed |-> listed,
     failed |-> failed, outcome |-> outcome, devLogs |-> devLogs, hostLogs |-> hostLogs,
     cmds |-> <<>>, symbolized |-> <<>>, removed |-> {}]

NoMon == Mon("idle", 0, 0, FALSE, NotFound, FALSE, "ok", {}, {})

MonitorRefreshFlagFalse == FALSE

\* while self.is_running(refresh=True)
MonitorRefreshFlag == TRUE

\* One evaluation of the loop condition of monitor() and, when it is true,
\* the sleep that follows.  listed is the pid the device lists for the fuzzer
\* when the condition is evaluated.
monitor_poll(m, cache, out, ok, listed) ==
    LET r == is_running(cache, MonitorRefreshFlag, out, ok)
        n == IF m.polls < MaxPolls THEN m.polls + 1 ELSE m.polls
    IN  [pids |-> r.pids, cs |-> r.cs, ret |-> r.ret, outcome |-> r.outcome,
         mon |-> IF r.outcome # "ok"
                 THEN [m EXCEPT !.pc = "done", !.polls = n, !.cs = r.cs,
                                !.failed = TRUE, !.outcome = r.outcome]
                 ELSE [m EXCEPT !.pc = IF r.running THEN "poll" ELSE "fetch",
                                !.polls = n, !.cs = r.cs, !.running = r.running,
                                !.listed = listed]]

\* A monitor() that issues the removal of the device logs although the fetch
\* before it has failed.
monitor_fetchThenRemoveRegardless(m) ==
    [m EXCEPT !.pc = "done", !.outcome = "TypeError",
              !.cmds = Append(@, Cmd("rm", <<"-f", data_path("fuzz-*.log")>>))]

\* self.device.fetch(logs, self._output, retries=2): Device.fetch is
\* fetch(self, host_dst, *args) and takes no keyword argument, so the call
\* raises TypeError before its body runs; monitor() ends there, with no
\* directory check, copy, removal or symbolization.
monitor_fetch(m) == [m EXCEPT !.pc = "done", !.outcome = "TypeError"]

-----------------------------------------------------------------------------
(* command.start_fuzzer, command.analyze_fuzzer *)

MaxCorpora == 2      \* corpora given to the 'analyze' command

\* A call a command makes on the fuzzer or the host.
Call(name, arg) == [name |-> name, arg |-> arg]

\* command.start_fuzzer(args, factory) with args.monitor unset:
\* factory.create_fuzzer comes first and fails before a Fuzzer exists; on a
\* Fuzzer (with the foreground flag of args) the branch would start by
\* evaluating factory.host, before fuzzer.start(); with that attribute it
\* would call fuzzer.start() and then, unless args.foreground, spawn
\* 'python <argv0> start --monitor ...'.
start_fuzzer(args, out, ok) ==
    IF create_fuzzer # "ok"
    THEN [pids |-> NonePids, cs |-> 0, ret |-> NoPid, outcome |-> create_fuzzer,
          foreground |-> FALSE, calls |-> <<>>]
    ELSE IF ~FactoryHasHost
    THEN [pids |-> NonePids, cs |-> 0, ret |-> NoPid, outcome |-> "AttributeError",
          foreground |-> args.foreground, calls |-> <<>>]
    ELSE LET s == start(NonePids, out, ok) IN
         [pids |-> s.pids, cs |-> s.cs, ret |-> s.ret, outcome |-> s.outcome,
          foreground |-> args.foreground,
          calls |-> <<Call("start", "")>>
                        \o (IF s.outcome = "ok" /\ ~args.foreground
                            THEN <<Call("spawn", "start --monitor")>> ELSE <<>>)]

\* command.start_fuzzer(args, factory) with args.monitor set:
\* factory.create_fuzzer comes first and fails, so that fuzzer.monitor() is
\* not called; were it called and ended as the monitor record m tells, a
\* failure of monitor() would propagate, and otherwise the branch would go on
\* to factory.host.
start_fuzzer_monitored(m) ==
    IF create_fuzzer # "ok"
    THEN [outcome |-> create_fuzzer, calls |-> <<>>]
    ELSE [outcome |-> IF m.outcome # "ok" THEN m.outcome
                      ELSE IF ~FactoryHasHost THEN "AttributeError" ELSE "ok",
          calls |-> <<Call("monitor", "")>>]

\* How a monitor() call on a fuzzer that is not running ends: its status
\* command fails, or its fetch does.
MonitorEnds ==
    {Mon("done", 1, 1, FALSE, NotFound, TRUE, "CalledProcessError", {}, {})}
        \cup {monitor_fetch(Mon("fetch", 1, 1, FALSE, NotFound, FALSE, "ok", logs, {})) :
                 logs \in SUBSET DeviceLogs}

\* Fuzzer (lib/fuzzer.py) defines no corpus, no dictionary and no analyze.
FuzzerHasCorpus == FALSE

GcsUrl == "gs://corpus.internal.clusterfuzz.com/libFuzzer/fuchsia_foo-bar"

\* command.analyze_fuzzer(args, factory): factory.create_fuzzer comes first
\* and fails; on a Fuzzer, whichever of the four steps comes first evaluates
\* fuzzer.corpus, fuzzer.dictionary or fuzzer.analyze and raises
\* AttributeError; with those attributes the calls would be add_from_host
\* for every corpus, dictionary.replace, add_from_gcs, analyze.
analyze_fuzzer(args) ==
    IF create_fuzzer # "ok"
    THEN [outcome |-> create_fuzzer, calls |-> <<>>]
    ELSE IF ~FuzzerHasCorpus
    THEN [outcome |-> "AttributeError", calls |-> <<>>]
    ELSE [outcome |-> "ok",
          calls |-> [i \in 1..Len(args.corpora) |-> Call("add_from_host", args.corpora[i])]
                        \o (IF args.dict THEN <<Call("replace", "dict")>> ELSE <<>>)
                        \o (IF ~args.local THEN <<Call("add_from_gcs", GcsUrl)>> ELSE <<>>)
                        \o <<Call("analyze", "")>>]

-----------------------------------------------------------------------------
(* Steps *)

\* Inputs as a caller hands them to the fuzzer: host paths and patterns.
InputPatterns == {<<"crash-1">>, <<"units", "*">>}

\* The host paths store() and repro() may be asked to expand.
HostPatterns == InputPatterns \cup {data_path("")}

\* What cli.glob (glob.glob) may return for a pattern: nothing, or the host
\* files the pattern matches, in the order the directory lists them, which
\* is any order ('units/*' matches two files; a plain path itself).
GlobChoices(pattern) ==
    IF pattern = <<"units", "*">>
    THEN {<<>>, << <<"units", "a">>, <<"units", "b">> >>,
                << <<"units", "b">>, <<"units", "a">> >>}
    ELSE {<<>>, <<pattern>>}

\* The host's files, as the answers of cli.glob.
HostGlobs == {g \in [HostPatterns -> UNION {GlobChoices(p) : p \in HostPatterns}] :
                 \A p \in HostPatterns : g[p] \in GlobChoices(p)}

\* No store or repro call yet.
NoGiven ==
    [dst |-> <<>>, inputs |-> <<>>, glob |-> [p \in HostPatterns |-> <<>>],
     debug |-> FALSE, libfuzzer_opts |-> EmptyMap, subprocess_args |-> <<>>]

\* self._ssh_verbosity = 0 (Device.__init__); self._output = fxpath('local',
\* '<package>_<executable>') (Fuzzer.__init__); dirs are the directories of
\* the host.
Attrs(ssh_verbosity, out, dirs) ==
    [ssh_verbosity |-> ssh_verbosity, output |-> out, dirs |-> dirs]

InitAttrs == Attrs(0, output, {output})

\* The record of a command invocation: the command, its arguments, where it
\* is (pc), the calls it has made on the fuzzer and the host, in order, and
\* how it ended.
CmdResult(op, args, pc, calls, outcome) ==
    [op |-> op, args |-> args, pc |-> pc, calls |-> calls, outcome |-> outcome]

NoArgs == [monitor |-> FALSE, foreground |-> FALSE, corpora |-> <<>>, dict |-> FALSE,
           local |-> FALSE]

NoCmd == CmdResult("none", NoArgs, "done", <<>>, "ok")

\* The record of a Host call: op, the source root of the Host, the call's
\* arguments, the value returned, for fxpath the value of fxpath applied to
\* that value, and for read_fuzzers the catalog before the call.
HostResult(op, root, args, ret, again, before) ==
    [op |-> op, root |-> root, args |-> args, ret |-> ret, again |-> again,
     before |-> before]

NoHost == HostResult("none", <<>>, <<>>, <<>>, <<>>, <<>>)

\* What the most recent step was: the call and its arguments, two facts of
\* the state it started in (csBefore: a 'cs' command had been issued before;
\* had: the cache held an entry for pair), and what it did.
Step(op, pair, refresh, csBefore, had, cs, outcome, ret, cmds) ==
    [op |-> op, pair |-> pair, refresh |-> refresh, csBefore |-> csBefore,
     had |-> had, cs |-> cs, outcome |-> outcome, ret |-> ret, cmds |-> cmds,
     running |-> FALSE]

Cached(pair) == pair \in DOMAIN pids.map

NoPair == <<"", "">>

FuzzPair == <<FuzzPackage, FuzzExecutable>>

Init ==
    /\ devOut \in CsOutputs
    /\ pids = NonePids
    /\ csEver = FALSE
    /\ fpid = NoPid
    /\ libInputs = <<>>
    /\ foreground = FALSE
    /\ options = InitOptions
    /\ stream = <<>>
    /\ echo = FALSE
    /\ pipe = NoPipe
    /\ lsOut = <<>>
    /\ lsres = NoLs
    /\ mon = NoMon
    /\ display = <<>>
    /\ sysOut = <<>>
    /\ fuzzers = <<>>
    /\ hostres = NoHost
    /\ cmdres = NoCmd
    /\ attrs = InitAttrs
    /\ given = NoGiven
    /\ last = Step("init", NoPair, FALSE, FALSE, FALSE, 0, "ok", NotFound, <<>>)

\* The device's process table changes (a component starts or exits), and
\* with it the listing a later 'cs' prints.
DeviceChange ==
    /\ \/ \E line \in CsLines : Len(devOut) < MaxCsLines /\ devOut' = Append(devOut, line)
       \/ devOut # <<>> /\ devOut' = Tail(devOut)
    /\ last' = Step("env", NoPair, FALSE, csEver, FALSE, 0, "ok", NotFound, <<>>)
    /\ UNCHANGED <<pids, csEver, fpid, libInputs, foreground, options, stream, echo, pipe, lsOut, lsres, mon, display, given, sysOut, fuzzers, hostres, cmdres,
                   attrs>>

\* A call of Device.getpid(package, executable, refresh).
GetPid ==
    \E pair \in Pairs, refresh \in BOOLEAN, ok \in BOOLEAN :
        LET r == getpid(pids, pair[1], pair[2], refresh, devOut, ok) IN
        /\ pids' = r.pids
        /\ csEver' = (csEver \/ r.cs > 0)
        /\ last' = Step("getpid", pair, refresh, csEver, Cached(pair), r.cs,
                         r.outcome, r.ret, CsCmds(r.cs))
        /\ UNCHANGED <<devOut, fpid, libInputs, foreground, options, stream, echo, pipe, lsOut, lsres, mon, display, given, sysOut, fuzzers, hostres, cmdres,
                   attrs>>

\* A call of Fuzzer.is_running(refresh).
IsRunning ==
    \E refresh \in BOOLEAN, ok \in BOOLEAN :
        LET r == is_running(pids, refresh, devOut, ok) IN
        /\ pids' = r.pids
        /\ csEver' = (csEver \/ r.cs > 0)
        /\ fpid' = IF r.outcome = "ok" THEN r.ret ELSE fpid
        /\ last' = [Step("is_running", FuzzPair, refresh, csEver, Cached(FuzzPair), r.cs,
                          r.outcome, r.ret, CsCmds(r.cs)) EXCEPT !.running = r.running]
        /\ UNCHANGED <<devOut, libInputs, foreground, options, stream, echo, pipe, lsOut, lsres, mon, display, given, sysOut, fuzzers, hostres, cmdres,
                   attrs>>

\* A call of Fuzzer.start().
Start ==
    \E ok \in BOOLEAN :
        LET r == start(pids, devOut, ok) IN
        /\ pids' = r.pids
        /\ csEver' = (csEver \/ r.cs > 0)
        /\ fpid' = IF r.outcome = "CalledProcessError" THEN fpid ELSE r.ret
        /\ last' = Step("start", FuzzPair, StartRefreshFlag, csEver, Cached(FuzzPair), r.cs,
                         r.outcome, r.ret, r.cmds)
        /\ UNCHANGED <<devOut, libInputs, foreground, options, stream, echo, pipe, lsOut, lsres, mon, display, given, sysOut, fuzzers, hostres, cmdres,
                   attrs>>

\* A call of Fuzzer.stop().  The kill takes effect on the device as a later
\* change of its process table.
Stop ==
    \E ok \in BOOLEAN, killOk \in BOOLEAN :
        LET r == stop(pids, devOut, ok, killOk)
            c == is_running(pids, StopRefreshFlag, devOut, ok)
        IN
        /\ pids' = r.pids
        /\ csEver' = (csEver \/ r.cs > 0)
        /\ fpid' = IF c.outcome = "ok" THEN c.ret ELSE fpid
        /\ last' = Step("stop", FuzzPair, StopRefreshFlag, csEver, Cached(FuzzPair), r.cs,
                         r.outcome, r.ret, r.cmds)
        /\ UNCHANGED <<devOut, libInputs, foreground, options, stream, echo, pipe, lsOut, lsres, mon, display, given, sysOut, fuzzers, hostres, cmdres,
                   attrs>>

\* An invocation of the 'stop' command, on a new Device.
StopFuzzer ==
    \E ok \in BOOLEAN, killOk \in BOOLEAN :
        LET r == stop_fuzzer(devOut, ok, killOk) IN
        /\ pids' = r.pids
        /\ csEver' = (r.cs > 0)
        /\ fpid' = IF ok THEN r.ret ELSE NoPid
        /\ display' = r.shown
        /\ last' = Step("stop_fuzzer", FuzzPair, FALSE, FALSE, FALSE, r.cs,
                         r.outcome, r.ret, r.cmds)
        /\ UNCHANGED <<devOut, libInputs, foreground, options, stream, echo, pipe, lsOut, lsres, mon, given, sysOut, fuzzers, hostres, cmdres,
                   attrs>>

\* monitor() is called: the background run has left some logs on the device
\* and earlier runs some files in the output directory.
MonitorCall ==
    /\ mon.pc \in {"idle", "done"}
    /\ \E devLogs \in SUBSET DeviceLogs, hostLogs \in SUBSET HostLogs :
          mon' = Mon("poll", 0, 0, FALSE, NotFound, FALSE, "ok", devLogs, hostLogs)
    /\ last' = Step("monitor", FuzzPair, MonitorRefreshFlag, csEver, Cached(FuzzPair), 0,
                     "ok", NotFound, <<>>)
    /\ UNCHANGED <<devOut, pids, csEver, fpid, libInputs, foreground, options, stream, echo, pipe, lsOut, lsres, display, given, sysOut, fuzzers, hostres, cmdres,
                   attrs>>

\* monitor() evaluates its loop condition (and sleeps when it is true).
MonitorPoll ==
    /\ mon.pc = "poll"
    /\ \E ok \in BOOLEAN :
          LET r == monitor_poll(mon, pids, devOut, ok, ListedPid(devOut, FuzzPair)) IN
          /\ pids' = r.pids
          /\ csEver' = (csEver \/ r.cs > 0)
          /\ fpid' = IF r.outcome = "ok" THEN r.ret ELSE fpid
          /\ mon' = r.mon
          /\ last' = Step("monitor_poll", FuzzPair, MonitorRefreshFlag, csEver, Cached(FuzzPair),
                           r.cs, r.outcome, r.ret, CsCmds(r.cs))
    /\ UNCHANGED <<devOut, libInputs, foreground, options, stream, echo, pipe, lsOut, lsres, display, given, sysOut, fuzzers, hostres, cmdres,
                   attrs>>

\* monitor() has left its loop and goes on to fetch the logs.
MonitorFetch ==
    /\ mon.pc = "fetch"
    /\ mon' = monitor_fetch(mon)
    /\ last' = Step("monitor_fetch", FuzzPair, FALSE, csEver, Cached(FuzzPair), 0,
                     "TypeError", NotFound, <<>>)
    /\ UNCHANGED <<devOut, pids, csEver, fpid, libInputs, foreground, options, stream, echo, pipe, lsOut, lsres, display, given, sysOut, fuzzers, hostres, cmdres,
                   attrs>>

NextMonitor ==
    \/ DeviceChange
    \/ MonitorCall
    \/ MonitorPoll
    \/ MonitorFetch

SpecMonitor == Init /\ [][NextMonitor]_vars

\* An invocation of the 'start' command without --monitor.
StartFuzzer ==
    /\ cmdres.op = "none"
    /\ \E fg \in BOOLEAN, ok \in BOOLEAN :
          LET args == [NoArgs EXCEPT !.foreground = fg]
              r == start_fuzzer(args, devOut, ok)
          IN  /\ pids' = r.pids
              /\ csEver' = (r.cs > 0)
              /\ fpid' = r.ret
              /\ foreground' = r.foreground
              /\ cmdres' = CmdResult("start_fuzzer", args, "done", r.calls, r.outcome)
    /\ mon' = NoMon
    /\ last' = Step("start_fuzzer", FuzzPair, FALSE, FALSE, FALSE, 0, "ok", NotFound, <<>>)
    /\ UNCHANGED <<devOut, libInputs, options, stream, echo, pipe, lsOut, lsres, display,
                   given, sysOut, fuzzers, hostres, attrs>>

\* An invocation of the 'start' command with --monitor.
StartFuzzerMonitor ==
    /\ cmdres.op = "none"
    /\ pids' = NonePids
    /\ csEver' = FALSE
    /\ fpid' = NoPid
    /\ \E m \in MonitorEnds :
          cmdres' = CmdResult("start_fuzzer", [NoArgs EXCEPT !.monitor = TRUE], "done",
                              start_fuzzer_monitored(m).calls,
                              start_fuzzer_monitored(m).outcome)
    /\ last' = Step("start_fuzzer", FuzzPair, FALSE, FALSE, FALSE, 0, "ok", NotFound, <<>>)
    /\ UNCHANGED <<devOut, libInputs, foreground, options, stream, echo, pipe, lsOut, lsres,
                   mon, display, given, sysOut, fuzzers, hostres, attrs>>

\* An invocation of the 'analyze' command.
AnalyzeFuzzer ==
    /\ cmdres.op = "none"
    /\ \E corpora \in SeqsUpTo({"corpus1", "corpus2"}, MaxCorpora),
          dict \in BOOLEAN, local \in BOOLEAN :
          LET args == [NoArgs EXCEPT !.corpora = corpora, !.dict = dict, !.local = local]
              r == analyze_fuzzer(args)
          IN  cmdres' = CmdResult("analyze_fuzzer", args, "done", r.calls, r.outcome)
    /\ pids' = NonePids
    /\ csEver' = FALSE
    /\ fpid' = NoPid
    /\ mon' = NoMon
    /\ last' = Step("analyze_fuzzer", FuzzPair, FALSE, FALSE, FALSE, 0, "ok", NotFound, <<>>)
    /\ UNCHANGED <<devOut, libInputs, foreground, options, stream, echo, pipe, lsOut, lsres,
                   display, given, sysOut, fuzzers, hostres, attrs>>

\* One invocation of a command: a process of its own.
NextCommand ==
    \/ StartFuzzer
    \/ StartFuzzerMonitor
    \/ AnalyzeFuzzer

SpecCommand == Init /\ [][NextCommand]_vars

\* The monitoring process is a single thread of control that keeps running:
\* each of its steps is taken once it is due.
SpecMonitorLive ==
    SpecMonitor /\ WF_vars(MonitorPoll) /\ WF_vars(MonitorFetch)

InitRepro ==
    /\ devOut = <<>>
    /\ pids = NonePids
    /\ csEver = FALSE
    /\ fpid = NoPid
    /\ libInputs = <<>>
    /\ foreground = FALSE
    /\ options = InitOptions
    /\ stream = <<>>
    /\ echo = FALSE
    /\ pipe = NoPipe
    /\ lsOut = <<>>
    /\ lsres = NoLs
    /\ mon = NoMon
    /\ display = <<>>
    /\ sysOut = <<>>
    /\ fuzzers = <<>>
    /\ hostres = NoHost
    /\ cmdres = NoCmd
    /\ attrs = InitAttrs
    /\ given \in {[NoGiven EXCEPT !.glob = g] : g \in HostGlobs}
    /\ last = Step("init", NoPair, FALSE, FALSE, FALSE, 0, "ok", NotFound, <<>>)

\* The libfuzzer_inputs setter: the caller's positional arguments.
SetLibfuzzerInputs ==
    /\ \E inputs \in SeqsUpTo(InputPatterns, MaxInputs) : libInputs' = inputs
    /\ last' = Step("set_inputs", FuzzPair, FALSE, csEver, FALSE, 0, "ok", NotFound, <<>>)
    /\ UNCHANGED <<devOut, pids, csEver, fpid, foreground, options, stream, echo, pipe, lsOut, lsres, mon, display, given, sysOut, fuzzers, hostres, cmdres,
                   attrs>>

\* The foreground setter.
SetForeground ==
    /\ \E fg \in BOOLEAN : foreground' = fg
    /\ last' = Step("set_foreground", FuzzPair, FALSE, csEver, FALSE, 0, "ok", NotFound, <<>>)
    /\ UNCHANGED <<devOut, pids, csEver, fpid, libInputs, options, stream, echo, pipe, lsOut, lsres, mon, display, given, sysOut, fuzzers, hostres, cmdres,
                   attrs>>

\* A call of Fuzzer.repro().
Repro ==
    \E fail \in 0..(2 * MaxInputs + 1) :
        LET r == repro(libInputs, foreground, options, given.glob, fail,
                       given.debug, given.libfuzzer_opts, given.subprocess_args) IN
        /\ libInputs' = r.inputs
        /\ foreground' = r.foreground
        /\ options' = r.options
        /\ given' = [given EXCEPT !.dst = <<>>, !.inputs = libInputs]
        /\ last' = Step("repro", FuzzPair, FALSE, csEver, FALSE, 0, r.outcome, NotFound, r.cmds)
        /\ UNCHANGED <<devOut, pids, csEver, fpid, stream, echo, pipe, lsOut, lsres, mon, display, sysOut, fuzzers, hostres, cmdres,
                   attrs>>

\* A call of Device.store(device_dst, *args) with the fuzzer's data path as
\* the device directory.
Store ==
    \E args \in SeqsUpTo(InputPatterns, MaxInputs), fail \in 0..2 :
        LET r == store(data_path(""), args, given.glob, 0, fail) IN
        /\ given' = [given EXCEPT !.dst = data_path(""), !.inputs = args]
        /\ last' = Step("store", FuzzPair, FALSE, csEver, FALSE, 0, r.outcome, r.ret, r.cmds)
        /\ UNCHANGED <<devOut, pids, csEver, fpid, libInputs, foreground, options, stream, echo, pipe, lsOut, lsres, mon, display, sysOut, fuzzers, hostres, cmdres,
                   attrs>>

-----------------------------------------------------------------------------
(* The validating setters and Device.fetch *)

\* The greatest ssh_verbosity the setter accepts.
MaxSshVerbosity == 3

\* A setter that assigns before it validates.
set_ssh_verbosityAssignFirst(old, ssh_verbosity) ==
    [outcome |-> IF ssh_verbosity < 0 \/ ssh_verbosity > MaxSshVerbosity
                 THEN "ValueError" ELSE "ok",
     value |-> ssh_verbosity]

\* The Device.ssh_verbosity setter.
set_ssh_verbosity(old, ssh_verbosity) ==
    IF ssh_verbosity < 0 \/ ssh_verbosity > MaxSshVerbosity
    THEN [outcome |-> "ValueError", value |-> old]
    ELSE [outcome |-> "ok", value |-> ssh_verbosity]

\* The Fuzzer.output setter: <<>> is the empty string, dirs the directories
\* of the host (self.device.host.isdir).
set_output(old, out, dirs) ==
    IF out = <<>> \/ out \notin dirs
    THEN [outcome |-> "ValueError", value |-> old]
    ELSE [outcome |-> "ok", value |-> out]

\* The values callers give to the ssh_verbosity setter.
VerbosityInputs == (0 - 1)..(MaxSshVerbosity + 1)

\* Host paths: the empty string, directories the host may have, a file.
HostPaths == {<<>>, output, <<"out">>, <<"notes.txt">>}

HostDirChoices == {output, <<"out">>}

\* The host: a directory is made or removed.
HostDirsChange ==
    /\ \E d \in HostDirChoices :
          attrs' = [attrs EXCEPT !.dirs = IF d \in @ THEN @ \ {d} ELSE @ \cup {d}]
    /\ last' = Step("env", NoPair, FALSE, csEver, FALSE, 0, "ok", NotFound, <<>>)
    /\ UNCHANGED <<devOut, pids, csEver, fpid, libInputs, foreground, options, stream, echo,
                   pipe, lsOut, lsres, mon, display, given, sysOut, fuzzers, hostres, cmdres>>

\* A call of the Device.ssh_verbosity setter; last.ret is the value before.
SetSshVerbosity ==
    /\ \E v \in VerbosityInputs :
          LET r == set_ssh_verbosity(attrs.ssh_verbosity, v) IN
          /\ attrs' = [attrs EXCEPT !.ssh_verbosity = r.value]
          /\ given' = [given EXCEPT !.inputs = <<v>>]
          /\ last' = Step("set_ssh_verbosity", NoPair, FALSE, csEver, FALSE, 0, r.outcome,
                           attrs.ssh_verbosity, <<>>)
    /\ UNCHANGED <<devOut, pids, csEver, fpid, libInputs, foreground, options, stream, echo,
                   pipe, lsOut, lsres, mon, display, sysOut, fuzzers, hostres, cmdres>>

\* A call of the Fuzzer.output setter; last.ret is the value before.
SetOutput ==
    /\ \E out \in HostPaths :
          LET r == set_output(attrs.output, out, attrs.dirs) IN
          /\ attrs' = [attrs EXCEPT !.output = r.value]
          /\ given' = [given EXCEPT !.dst = out]
          /\ last' = Step("set_output", FuzzPair, FALSE, csEver, FALSE, 0, r.outcome,
                           attrs.output, <<>>)
    /\ UNCHANGED <<devOut, pids, csEver, fpid, libInputs, foreground, options, stream, echo,
                   pipe, lsOut, lsres, mon, display, sysOut, fuzzers, hostres, cmdres>>

\* A call of Device.fetch(host_dst, *args) for files of the fuzzer's data
\* directory.
Fetch ==
    /\ \E host_dst \in HostPaths, args \in SeqsUpTo({data_path("fuzz-0.log"), data_path("crash-1")}, MaxInputs),
          fail \in 0..1 :
          LET r == fetch(host_dst, args, attrs.dirs, 0, fail) IN
          /\ given' = [given EXCEPT !.dst = host_dst, !.inputs = args]
          /\ last' = Step("fetch", FuzzPair, FALSE, csEver, FALSE, 0, r.outcome, NotFound, r.cmds)
    /\ UNCHANGED <<devOut, pids, csEver, fpid, libInputs, foreground, options, stream, echo,
                   pipe, lsOut, lsres, mon, display, sysOut, fuzzers, hostres, cmdres, attrs>>

\* The engine options a caller supplies, as '-key=val' arguments.
CallerKeys == {"artifact_prefix", "dict", "jobs", "handle_segv"}

\* The value the caller gives each of them.
CallerValue(k) == IF k \in {"artifact_prefix", "dict"} THEN "out/" ELSE "2"

\* The sets of keys the caller supplies.
CallerKeySets == {{}, {"jobs"}, {"dict"}, {"artifact_prefix", "handle_segv", "jobs"}}

CallerOptions ==
    {[k \in keys |-> CallerValue(k)] : keys \in CallerKeySets}

\* The libfuzzer_opts setter.
SetLibfuzzerOpts ==
    /\ \E opts \in CallerOptions : given' = [given EXCEPT !.libfuzzer_opts = opts]
    /\ last' = Step("set_libfuzzer_opts", FuzzPair, FALSE, csEver, FALSE, 0, "ok", NotFound, <<>>)
    /\ UNCHANGED <<devOut, pids, csEver, fpid, libInputs, foreground, options, stream, echo,
                   pipe, lsOut, lsres, mon, display, sysOut, fuzzers, hostres, cmdres, attrs>>

\* The debug setter.
SetDebug ==
    /\ \E debug \in BOOLEAN : given' = [given EXCEPT !.debug = debug]
    /\ last' = Step("set_debug", FuzzPair, FALSE, csEver, FALSE, 0, "ok", NotFound, <<>>)
    /\ UNCHANGED <<devOut, pids, csEver, fpid, libInputs, foreground, options, stream, echo,
                   pipe, lsOut, lsres, mon, display, sysOut, fuzzers, hostres, cmdres, attrs>>

\* The subprocess_args setter: the caller's arguments after '--'.
SetSubprocessArgs ==
    /\ \E sub \in SeqsUpTo({"-x"}, MaxSubprocessArgs) :
          given' = [given EXCEPT !.subprocess_args = sub]
    /\ last' = Step("set_subprocess_args", FuzzPair, FALSE, csEver, FALSE, 0, "ok", NotFound, <<>>)
    /\ UNCHANGED <<devOut, pids, csEver, fpid, libInputs, foreground, options, stream, echo,
                   pipe, lsOut, lsres, mon, display, sysOut, fuzzers, hostres, cmdres, attrs>>

\* A call of Fuzzer._create(): self._options keeps what earlier calls wrote.
Create ==
    /\ options' = CreateOptionsWith(options, foreground, given.debug, given.libfuzzer_opts)
    /\ last' = Step("_create", FuzzPair, FALSE, csEver, FALSE, 0, "ok", NotFound,
                     <<create(options, foreground, given.debug, given.libfuzzer_opts,
                                   libInputs, given.subprocess_args)>>)
    /\ UNCHANGED <<devOut, pids, csEver, fpid, libInputs, foreground, stream, echo, pipe,
                   lsOut, lsres, mon, display, given, sysOut, fuzzers, hostres, cmdres,
                   attrs>>

\* The attributes of a Fuzzer that have a setter.
FuzzerAttrs(debug, fg, inputs, libfuzzer_opts, subprocess_args, out) ==
    [debug |-> debug, foreground |-> fg, libfuzzer_inputs |-> inputs,
     libfuzzer_opts |-> libfuzzer_opts, subprocess_args |-> subprocess_args,
     output |-> out]

\* Properties of Fuzzer without a setter: setattr raises AttributeError.
ReadOnlyKeys == {"device", "package", "executable"}

\* The keys of the items given to update() that name a property of Fuzzer.
UpdateKeys == {"debug", "foreground", "libfuzzer_inputs", "libfuzzer_opts",
               "subprocess_args", "output", "package"}

\* The values the items give those keys.
UpdateItems ==
    {FuzzerAttrs(d, fg, << <<"crash-1">> >>, MapPut(EmptyMap, "jobs", "2"), <<"-x">>, out) :
        d \in BOOLEAN, fg \in BOOLEAN, out \in {output, <<"notes.txt">>}}

\* The items with the given keys: one value for every key not among them.
ItemsWith(keys) ==
    {items \in UpdateItems :
        /\ "debug" \notin keys => items.debug
        /\ "foreground" \notin keys => items.foreground
        /\ "output" \notin keys => items.output = output}

\* The keys of the items whose setattr raises.
FailingKeys(keys, items, dirs) ==
    {k \in keys : \/ k \in ReadOnlyKeys
                  \/ k = "output" /\ set_output(<<>>, items.output, dirs).outcome # "ok"}

\* How the loop over vars(Fuzzer).items() may end, the order of that
\* dictionary being any order: with every key assigned, or at the first
\* failing key it reaches, with any of the other keys assigned before it.
UpdateOutcomes(keys, items, dirs) ==
    IF FailingKeys(keys, items, dirs) = {}
    THEN {[outcome |-> "ok", assigned |-> keys]}
    ELSE {[outcome |-> IF failed = "output" THEN "ValueError" ELSE "AttributeError",
           assigned |-> before] :
             failed \in FailingKeys(keys, items, dirs),
             before \in SUBSET (keys \ FailingKeys(keys, items, dirs))}

\* setattr(self, key, items[key]) for every key assigned
Assign(fz, items, assigned) ==
    [k \in DOMAIN fz |-> IF k \in assigned THEN items[k] ELSE fz[k]]

\* Fuzzer.update(items): the outcomes it may have and the attributes after each.
update(fz, keys, items, dirs) ==
    {[outcome |-> o.outcome, fz |-> Assign(fz, items, o.assigned)] :
        o \in UpdateOutcomes(keys, items, dirs)}

\* A call of Fuzzer.update(items) with at most MaxItems of those keys.
Update ==
    /\ \E keys \in {ks \in SUBSET UpdateKeys : Cardinality(ks) <= MaxItems} :
          \E items \in ItemsWith(keys) :
             \E r \in update(FuzzerAttrs(given.debug, foreground, libInputs,
                                          given.libfuzzer_opts, given.subprocess_args,
                                          attrs.output),
                              keys, items, attrs.dirs) :
                /\ given' = [given EXCEPT !.debug = r.fz.debug,
                                          !.libfuzzer_opts = r.fz.libfuzzer_opts,
                                          !.subprocess_args = r.fz.subprocess_args]
                /\ foreground' = r.fz.foreground
                /\ libInputs' = r.fz.libfuzzer_inputs
                /\ attrs' = [attrs EXCEPT !.output = r.fz.output]
                /\ last' = Step("update", FuzzPair, FALSE, csEver, FALSE, 0, r.outcome,
                                 NotFound, <<>>)
    /\ UNCHANGED <<devOut, pids, csEver, fpid, options, stream, echo, pipe, lsOut, lsres,
                   mon, display, sysOut, fuzzers, hostres, cmdres>>

\* A new Fuzzer, with the attributes of its constructor, on a host that has
\* the files the patterns name.
InitCreate ==
    /\ InitRepro
    /\ given = [NoGiven EXCEPT !.glob = [p \in HostPatterns |->
                    IF p = <<"units", "*">>
                    THEN << <<"units", "a">>, <<"units", "b">> >> ELSE <<p>>]]

NextSetters ==
    \/ HostDirsChange
    \/ SetSshVerbosity
    \/ SetOutput
    \/ Fetch
    \/ SetSubprocessArgs

\* A new Device and a new Fuzzer, with the attributes of their constructors.
InitSetters ==
    /\ InitRepro
    /\ given = NoGiven

SpecSetters == InitSetters /\ [][NextSetters]_vars

NextCreate ==
    \/ SetLibfuzzerOpts
    \/ SetDebug
    \/ SetForeground
    \/ Update
    \/ Create
    \/ Repro

SpecCreate == InitCreate /\ [][NextCreate]_vars

NextRepro ==
    \/ SetLibfuzzerInputs
    \/ SetForeground
    \/ Repro
    \/ Start

SpecRepro == InitRepro /\ [][NextRepro]_vars

NextStore ==
    \/ SetLibfuzzerInputs
    \/ Store
    \/ Repro

SpecStore == InitRepro /\ [][NextStore]_vars

-----------------------------------------------------------------------------
(* Device.guess_pid on its own *)

MaxSyslog == 3       \* lines in a filtered syslog dump

\* Lines of a syslog dump, each the sequence of its parts between ']['
\* separators: two lines '[<timestamp>][<pid>][<tid>][<name>] <data>', an
\* empty line, a line with one separator only, and a line whose second field
\* is not a number.
SyslogLines ==
    { <<"[00012.345", "333", "444", "klog] INFO: libFuzzer">>,
      <<"[00013.000", "111", "445", "klog] Sanitizer">>,
      <<"">>,
      <<"[00014.000", "222] reset">>,
      <<"[00015.000", "abc", "446", "klog] reset">> }

InitGuess ==
    /\ devOut = <<>>
    /\ pids = NonePids
    /\ csEver = FALSE
    /\ fpid = NoPid
    /\ libInputs = <<>>
    /\ foreground = FALSE
    /\ options = InitOptions
    /\ stream = <<>>
    /\ echo = FALSE
    /\ pipe = NoPipe
    /\ lsOut = <<>>
    /\ lsres = NoLs
    /\ mon = NoMon
    /\ display = <<>>
    /\ sysOut \in SeqsUpTo(SyslogLines, MaxSyslog)
    /\ fuzzers = <<>>
    /\ hostres = NoHost
    /\ cmdres = NoCmd
    /\ attrs = InitAttrs
    /\ given = NoGiven
    /\ last = Step("init", NoPair, FALSE, FALSE, FALSE, 0, "ok", NotFound, <<>>)

\* A call of Device.guess_pid().
GuessPid ==
    /\ \E fail \in 0..1 :
          LET r == guess_pid(sysOut, 0, fail) IN
          last' = Step("guess_pid", NoPair, FALSE, csEver, FALSE, 0, r.outcome, r.pid, r.cmds)
    /\ UNCHANGED <<devOut, pids, csEver, fpid, libInputs, foreground, options, stream, echo,
                   pipe, lsOut, lsres, mon, display, given, sysOut, fuzzers, hostres, cmdres,
                   attrs>>

NextGuess == GuessPid

SpecGuess == InitGuess /\ [][NextGuess]_vars

-----------------------------------------------------------------------------
(* Host.fxpath, Host.read_fuzzers *)

\* A path or a name is the sequence of its characters.
PathChars == {"/", "r", "2"}

\* Host._fuchsia_dir: a relative source root 'r' or an absolute one '/r'
FuchsiaDirs == {<<"r">>, <<"/", "r">>}

\* os.path.join(a, b)
PathJoin2(a, b) ==
    IF startswith(b, <<"/">>) THEN b
    ELSE IF a = <<>> \/ a[Len(a)] = "/" THEN a \o b
    ELSE a \o <<"/">> \o b

RECURSIVE PathJoin(_, _, _)
\* os.path.join(path, *segments[i:])
PathJoin(path, segments, i) ==
    IF i > Len(segments) THEN path
    ELSE PathJoin(PathJoin2(path, segments[i]), segments, i + 1)

\* os.path.join(*segments)
PathJoinAll(segments) == PathJoin(segments[1], segments, 2)

\* Host.fxpath(*segments) of a Host whose source root is fuchsia_dir
fxpath(fuchsia_dir, segments) ==
    LET joined == PathJoinAll(segments) IN
    IF ~startswith(joined, fuchsia_dir) THEN PathJoin2(fuchsia_dir, joined) ELSE joined

\* The code point of a character of a name.
CharCode(ch) == CASE ch = "B" -> 66 [] ch = "a" -> 97 [] ch = "b" -> 98

RECURSIVE StrLess(_, _)
\* s < t for two strings
StrLess(s, t) ==
    IF t = <<>> THEN FALSE
    ELSE IF s = <<>> THEN TRUE
    ELSE IF s[1] # t[1] THEN CharCode(s[1]) < CharCode(t[1])
    ELSE StrLess(Tail(s), Tail(t))

\* An order on pairs that looks at the package only.
TupleLessPackageOnly(p, q) == StrLess(p[1], q[1])

\* p < q for two (package, executable) tuples
TupleLess(p, q) ==
    StrLess(p[1], q[1]) \/ (p[1] = q[1] /\ StrLess(p[2], q[2]))

RECURSIVE SortInsert(_, _)
\* list, sorted, with p put after every element that is not greater
SortInsert(list, p) ==
    IF list = <<>> THEN <<p>>
    ELSE IF TupleLess(p, list[1]) THEN <<p>> \o list
    ELSE <<list[1]>> \o SortInsert(Tail(list), p)

RECURSIVE SortFrom(_, _, _)
SortFrom(sorted, list, i) ==
    IF i > Len(list) THEN sorted ELSE SortFrom(SortInsert(sorted, list[i]), list, i + 1)

\* list.sort(): stable, ascending
sort(list) == SortFrom(<<>>, list, 1)

\* A record of the manifest.
FuzzSpec(package, execs) == [fuzzers_package |-> package, fuzzers |-> execs]

RECURSIVE AppendExecs(_, _, _, _)
\* for executable in fuzz_spec['fuzzers']: self.fuzzers.append((package, executable))
AppendExecs(catalog, package, execs, i) ==
    IF i > Len(execs) THEN catalog
    ELSE AppendExecs(Append(catalog, <<package, execs[i]>>), package, execs, i + 1)

RECURSIVE AppendSpecs(_, _, _)
\* for fuzz_spec in fuzz_specs
AppendSpecs(catalog, fuzz_specs, i) ==
    IF i > Len(fuzz_specs) THEN catalog
    ELSE AppendSpecs(AppendExecs(catalog, fuzz_specs[i].fuzzers_package,
                                 fuzz_specs[i].fuzzers, 1), fuzz_specs, i + 1)

\* Host.read_fuzzers(open_file_obj): fuzz_specs is what json.load returns.
read_fuzzers(catalog, fuzz_specs) == sort(AppendSpecs(catalog, fuzz_specs, 1))

\* Path segments, package names and executable names that occur.
Segments == SeqsUpTo(PathChars, MaxSeg)
PackageNames == {<<"a">>, <<"B">>}
ExecutableNames == {<<"a">>, <<"a", "b">>}

FuzzSpecs ==
    {FuzzSpec(package, execs) :
        package \in PackageNames, execs \in SeqsUpTo(ExecutableNames, MaxExecs)}

RECURSIVE PairCount(_, _)
\* the number of pairs the records from the i-th on hold
PairCount(fuzz_specs, i) ==
    IF i > Len(fuzz_specs) THEN 0
    ELSE Len(fuzz_specs[i].fuzzers) + PairCount(fuzz_specs, i + 1)

InitHost ==
    /\ devOut = <<>>
    /\ pids = NonePids
    /\ csEver = FALSE
    /\ fpid = NoPid
    /\ libInputs = <<>>
    /\ foreground = FALSE
    /\ options = InitOptions
    /\ stream = <<>>
    /\ echo = FALSE
    /\ pipe = NoPipe
    /\ lsOut = <<>>
    /\ lsres = NoLs
    /\ mon = NoMon
    /\ display = <<>>
    /\ sysOut = <<>>
    /\ given = NoGiven
    /\ fuzzers = <<>>
    /\ hostres = NoHost
    /\ cmdres = NoCmd
    /\ attrs = InitAttrs
    /\ last = Step("init", NoPair, FALSE, FALSE, FALSE, 0, "ok", NotFound, <<>>)

HostUnchanged ==
    UNCHANGED <<devOut, pids, csEver, fpid, libInputs, foreground, options, stream, echo,
                pipe, lsOut, lsres, mon, display, given, sysOut, cmdres, last, attrs>>

\* A call of Host.fxpath, and one of fxpath on the path it returned.
Fxpath ==
    /\ hostres.op = "none"
    /\ \E fuchsia_dir \in FuchsiaDirs, segments \in SeqsUpTo(Segments, MaxSegments) \ {<<>>} :
          LET once == fxpath(fuchsia_dir, segments) IN
          hostres' = HostResult("fxpath", fuchsia_dir, segments, once,
                                fxpath(fuchsia_dir, <<once>>), <<>>)
    /\ UNCHANGED fuzzers
    /\ HostUnchanged

NextFx == Fxpath

SpecFx == InitHost /\ [][NextFx]_vars

\* A call of Host.read_fuzzers on a manifest.
ReadFuzzers ==
    /\ \E fuzz_specs \in SeqsUpTo(FuzzSpecs, MaxRecords) :
          /\ Len(fuzzers) + PairCount(fuzz_specs, 1) <= MaxCatalog
          /\ fuzzers' = read_fuzzers(fuzzers, fuzz_specs)
          /\ hostres' = HostResult("read_fuzzers", <<>>, fuzz_specs, <<>>, <<>>, fuzzers)
    /\ HostUnchanged

NextCatalog == ReadFuzzers

SpecCatalog == InitHost /\ [][NextCatalog]_vars

\* Lines of a fuzzer log.
PipeLines ==
    { PLine("pid", "111", FALSE, ""),
      PLine("ms", "", FALSE, ""),
      PLine("other", "", TRUE, "crash-ab12"),
      PLine("other", "", TRUE, "leak-cd34"),
      PLine("other", "", FALSE, "") }

\* What the filtered syslog dump of guess_pid prints.
Syslogs ==
    { <<>>,
      << <<"[00012.345", "333", "444", "klog] INFO: libFuzzer">>, <<"">> >> }

\* The host's directories: the output directory, and possibly a directory at
\* the host path that equals a device data path.
HostDirSets == { {output}, {output} \cup {data_path(l.art) : l \in PipeLines} }

PipeEnvs ==
    [syslog : Syslogs, symFails : 0..MaxStream, hostDirs : HostDirSets, fail : 0..2]

InitPipe ==
    /\ devOut = <<>>
    /\ pids = NonePids
    /\ csEver = FALSE
    /\ fpid = NoPid
    /\ libInputs = <<>>
    /\ foreground = FALSE
    /\ options = InitOptions
    /\ stream \in SeqsUpTo(PipeLines, MaxStream)
    /\ echo \in BOOLEAN
    /\ pipe = NoPipe
    /\ lsOut = <<>>
    /\ lsres = NoLs
    /\ mon = NoMon
    /\ display = <<>>
    /\ sysOut = <<>>
    /\ fuzzers = <<>>
    /\ hostres = NoHost
    /\ cmdres = NoCmd
    /\ attrs = InitAttrs
    /\ given = NoGiven
    /\ last = Step("init", NoPair, FALSE, FALSE, FALSE, 0, "ok", NotFound, <<>>)

\* A call of Fuzzer._symbolize_log_impl on the stream.
SymbolizeLogImpl ==
    /\ pipe.pc = "ready"
    /\ \E env \in PipeEnvs : pipe' = symbolize_log_impl(stream, echo, env)
    /\ UNCHANGED <<devOut, pids, csEver, fpid, libInputs, foreground, options, stream, echo,
                   lsOut, lsres, mon, display, last, given, sysOut, fuzzers, hostres, cmdres,
                   attrs>>

\* The record of a symbolize_log call: refresh tells whether the call wrote
\* its symbolized log, had whether it made the fuzz-latest.log link.
SymbolizeLogStep(r) ==
    Step("symbolize_log", NoPair, r.ran, FALSE, r.linked, 0, r.outcome, r.ret, <<>>)

\* A call of Fuzzer.symbolize_log on the stream.
SymbolizeLog ==
    /\ pipe.pc = "ready"
    /\ last.op = "init"
    /\ \E env \in PipeEnvs : last' = SymbolizeLogStep(symbolize_log(stream, echo, env))
    /\ UNCHANGED <<devOut, pids, csEver, fpid, libInputs, foreground, options, stream, echo,
                   pipe, lsOut, lsres, mon, display, given, sysOut, fuzzers, hostres, cmdres,
                   attrs>>

NextPipe == SymbolizeLogImpl \/ SymbolizeLog

SpecPipe == InitPipe /\ [][NextPipe]_vars

\* Words of a listing.
WPerm == <<"-", "r", "w">>
WMonth == <<"M", "a", "r">>
WTime == <<"2", "2", ":", "0", "2">>

\* '-rw 1 0 0 <size> Mar 18 22:02 <name words>'
LsLine(size, name) ==
    <<WPerm, <<"1">>, <<"0">>, <<"0">>, size, WMonth, <<"1", "8">>, WTime>> \o name

LsLines ==
    { LsLine(<<"7">>, << <<"c", "r", "a", "s", "h", "-", "1">> >>),
      LsLine(<<"1", "2">>, << <<"m", "y">>, <<"f", "i", "l", "e">> >>),
      LsLine(<<"a", "b", "c">>, << <<"l", "e", "a", "k", "-", "2">> >>),
      LsLine(<<"3">>, << <<"z", "o", "o", "m">> >>),
      << <<"t", "o", "t", "a", "l">>, <<"8">> >>,
      <<>> }

InitLs ==
    /\ devOut = <<>>
    /\ pids = NonePids
    /\ csEver = FALSE
    /\ fpid = NoPid
    /\ libInputs = <<>>
    /\ foreground = FALSE
    /\ options = InitOptions
    /\ stream = <<>>
    /\ echo = FALSE
    /\ pipe = NoPipe
    /\ lsOut \in SeqsUpTo(LsLines, MaxLsLines)
    /\ lsres = NoLs
    /\ mon = NoMon
    /\ display = <<>>
    /\ sysOut = <<>>
    /\ fuzzers = <<>>
    /\ hostres = NoHost
    /\ cmdres = NoCmd
    /\ attrs = InitAttrs
    /\ given = NoGiven
    /\ last = Step("init", NoPair, FALSE, FALSE, FALSE, 0, "ok", NotFound, <<>>)

LsUnchanged ==
    UNCHANGED <<devOut, pids, csEver, fpid, libInputs, foreground, options, stream, echo,
                pipe, lsOut, mon, display, last, given, sysOut, fuzzers, hostres, cmdres,
                   attrs>>

\* A call of Device.ls on the listed directory.
Ls ==
    /\ \E ok \in BOOLEAN :
          LET r == ls(data_path(""), lsOut, ok) IN
          lsres' = LsResult("ls", ok, r.outcome, r.ret, <<0, 0>>, <<>>, r.cmds)
    /\ LsUnchanged

\* A call of Fuzzer.measure_corpus().
MeasureCorpus ==
    /\ \E ok \in BOOLEAN :
          LET r == measure_corpus(lsOut, ok) IN
          lsres' = LsResult("measure_corpus", ok, r.outcome, EmptyMap, r.ret, <<>>, r.cmds)
    /\ LsUnchanged

\* A call of Fuzzer.list_artifacts().
ListArtifacts ==
    /\ \E ok \in BOOLEAN :
          LET m == ls(data_path(""), lsOut, ok) IN
          \E order \in Orders(DOMAIN m.ret) :
              LET r == list_artifacts(lsOut, ok, order) IN
              lsres' = LsResult("list_artifacts", ok, r.outcome, EmptyMap, <<0, 0>>, r.ret, r.cmds)
    /\ LsUnchanged

NextLs ==
    \/ Ls
    \/ MeasureCorpus
    \/ ListArtifacts

SpecLs == InitLs /\ [][NextLs]_vars

Next ==
    \/ DeviceChange
    \/ GetPid
    \/ IsRunning
    \/ Start
    \/ Stop
    \/ StopFuzzer

Spec == Init /\ [][Next]_vars

-----------------------------------------------------------------------------
(* Claims *)

\* C1: a Device.getpid call issues the status command 'cs' if and only if no
\* status command was issued on this Device before (the cache was never
\* populated) or the call passes refresh=True; it never issues more than one.
\* So a second call without refresh issues none.
C1_CsIffUnpopulatedOrRefresh ==
    last.op = "getpid" =>
        /\ CountCmds(last.cmds, "cs") = last.cs
        /\ last.cs \in {0, 1}
        /\ (last.cs = 1) <=> (~last.csBefore \/ last.refresh)

\* C1 witness: a getpid call without refresh, after an earlier status
\* command, that issued no command.
C1_Witness ==
    last.op = "getpid" /\ ~last.refresh /\ last.csBefore /\ last.cmds = <<>>

\* C2: after a getpid call with refresh=True completes, the cache holds
\* exactly the entries of that call's status listing (for every pair, the pid
\* of its last well-formed line, and no entry for a pair without one), and the
\* call returns -1 for a pair the listing no longer has.
C2_RefreshReplacesCache ==
    (last.op = "getpid" /\ last.refresh /\ last.outcome = "ok") =>
        /\ pids.set
        /\ DOMAIN pids.map = {pair \in Pairs : StatusLineAt(devOut, pair) # {}}
        /\ \A pair \in DOMAIN pids.map : pids.map[pair] = ListedPid(devOut, pair)
        /\ (StatusLineAt(devOut, last.pair) = {} => last.ret = NotFound)

\* C2 witness: a refreshing call for a pair the cache held before and the new
\* listing does not have.
C2_Witness ==
    /\ last.op = "getpid" /\ last.refresh /\ last.outcome = "ok"
    /\ last.had /\ StatusLineAt(devOut, last.pair) = {}
    /\ last.ret = NotFound /\ DOMAIN pids.map # {}

\* C3: a getpid call that reads a status listing returns the pid of the
\* well-formed line of the asked pair, -1 when the listing has no such line,
\* and completes whatever other lines the listing holds.
C3_ReturnsListedPidOrNotFound ==
    (last.op = "getpid" /\ last.cs = 1 /\ last.outcome # "CalledProcessError") =>
        /\ last.outcome = "ok"
        /\ last.ret = ListedPid(devOut, last.pair)
        /\ (last.ret = NotFound) <=> (StatusLineAt(devOut, last.pair) = {})

\* C3 witness: a listing with a line that does not match the pattern and a
\* well-formed line of the asked pair, whose pid is returned.
C3_Witness ==
    /\ last.op = "getpid" /\ last.cs = 1 /\ last.outcome = "ok"
    /\ \E i \in 1..Len(devOut) : \A pair \in Pairs : ~StatusLineOf(devOut[i], pair)
    /\ last.ret \in PidValues

\* The device reports the fuzzer as running now.
DeviceReportsRunning == ListedPid(devOut, FuzzPair) > 0

\* C6: whenever the device reports the fuzzer as running when start() is
\* called, start() ends with the 'is running and must be stopped first'
\* error and issues nothing but the status check.
C6_StartFailsWhenDeviceRunning ==
    (last.op = "start" /\ last.outcome # "CalledProcessError" /\ DeviceReportsRunning) =>
        /\ last.outcome = IsRunningMessage
        /\ \A i \in 1..Len(last.cmds) : last.cmds[i].name = "cs"

\* C7: repro() called with an empty input list ends with the 'No units
\* provided.' error and issues no command at all (no mkdir, copy or run).
C7_ReproWithoutUnitsFails ==
    (last.op = "repro" /\ libInputs = <<>>) =>
        /\ last.outcome = NoUnitsMessage
        /\ last.cmds = <<>>

\* C7 witness: a repro() call on an empty input list has ended in the error.
C7_Witness ==
    last.op = "repro" /\ libInputs = <<>> /\ last.outcome = NoUnitsMessage

-----------------------------------------------------------------------------
(* Claims about the symbolization pipeline (under SpecPipe) *)

MutationMarkers == {i \in 1..Len(stream) : stream[i].head = "ms"}

\* The writes of a symbolized block to the output log.
SymWrites == {i \in 1..Len(pipe.out) : pipe.out[i].kind = "sym"}

\* The syslog fetches filtered to a pid: dump_log calls carrying '--pid'.
PidDumps ==
    {i \in 1..Len(pipe.cmds) :
        /\ pipe.cmds[i].name = "log_listener"
        /\ \E k \in 1..Len(pipe.cmds[i].argv) : pipe.cmds[i].argv[k][1] = "--pid"}

\* C4: for every stream the pipeline processes to its end, the symbolized
\* block is written to the output log exactly once when the stream has a
\* mutation-marker line, and never when it has none.
C4_SymbolizedBlockWrittenOnce ==
    (pipe.pc = "done" /\ pipe.outcome = "ok") =>
        Cardinality(SymWrites) = IF MutationMarkers = {} THEN 0 ELSE 1

\* C5: within one stream the pipeline fetches the pid-filtered syslog and
\* calls Host.symbolize at most once, whatever the symbolizer returns.
C5_AtMostOneSymbolization ==
    pipe.pc = "done" => (Cardinality(PidDumps) <= 1 /\ pipe.symCalls <= 1)

\* The names announced by 'Test unit written to data/<name>' lines.
Announced == {stream[i].art : i \in {j \in 1..Len(stream) : stream[j].hasArt}}

\* The copy commands the pipeline issued.
Copies == {pipe.cmds[i] : i \in {j \in 1..Len(pipe.cmds) : pipe.cmds[j].name = "scp"}}

\* C8: after the pipeline has consumed a stream (no remote command failing),
\* it has fetched exactly the announced names, each by a copy from the device
\* file <data namespace>/<name> into the fuzzer's output directory.
C8_FetchesAnnouncedArtifacts ==
    (pipe.pc = "done" /\ pipe.env.fail = 0) =>
        /\ pipe.outcome = "ok"
        /\ Copies = {ScpCmd(<<scp_rpath(data_path(a))>>, output) : a \in Announced}

-----------------------------------------------------------------------------
(* Claims about directory listings (under SpecLs) *)

\* The line is a well-formed 'ls -l' line: nine or more words, the fifth a
\* number.
WellFormedLsLine(line) == Len(line) >= 9 /\ IsInt(line[5])

WellFormedAt == {i \in 1..Len(lsOut) : WellFormedLsLine(lsOut[i])}

\* The name of a well-formed line: its words from the ninth on, joined by
\* single spaces.
LsName(line) == JoinFrom(line, 9)

\* C9: for every listing output, Device.ls completes and returns exactly the
\* (name, size) entries of the well-formed lines; every other line, one with
\* nine or more words and a non-numeric fifth included, is ignored.
C9_LsReturnsWellFormedEntries ==
    (lsres.op = "ls" /\ lsres.ok) =>
        /\ lsres.outcome = "ok"
        /\ DOMAIN lsres.map = {LsName(lsOut[i]) : i \in WellFormedAt}
        /\ \A i \in WellFormedAt :
              \/ lsres.map[LsName(lsOut[i])] = IntOf(lsOut[i][5])
              \/ \E j \in WellFormedAt : j > i /\ LsName(lsOut[j]) = LsName(lsOut[i])

\* C10: when the remote listing command fails, Device.ls completes with an
\* empty map, measure_corpus returns (0, 0) and list_artifacts returns an
\* empty list.
C10_FailedListingIsEmpty ==
    (lsres.op # "none" /\ ~lsres.ok) =>
        /\ lsres.outcome = "ok"
        /\ lsres.op = "ls" => lsres.map = EmptyMap
        /\ lsres.op = "measure_corpus" => lsres.measure = <<0, 0>>
        /\ lsres.op = "list_artifacts" => lsres.artifacts = <<>>

\* C10 witness: measure_corpus has returned (0, 0) after a failed listing
\* command, for a directory that would list files.
C10_Witness ==
    /\ lsres.op = "measure_corpus" /\ ~lsres.ok /\ lsres.measure = <<0, 0>>
    /\ Len(lsres.cmds) = 1 /\ WellFormedAt # {}

-----------------------------------------------------------------------------
(* Claims about stop() and the 'stop' command (under Spec) *)

\* The kill commands among cmds, in order.
KillsOf(cmds) == SelectSeq(cmds, LAMBDA c : c.name = "kill")

\* C11: a stop() call that completes has issued exactly one kill command,
\* for the pid the device lists for the fuzzer now, when the device reports
\* the fuzzer running, and no kill command when it does not.
C11_StopKillsListedPid ==
    (last.op = "stop" /\ last.outcome = "ok") =>
        KillsOf(last.cmds) = IF DeviceReportsRunning
                             THEN <<KillCmd(ListedPid(devOut, FuzzPair))>>
                             ELSE <<>>

\* C12: an invocation of the 'stop' command whose remote commands succeed
\* ends without an error; it reports 'Stopping' and kills the fuzzer when the
\* fuzzer is running, and reports 'already stopped' and issues no kill
\* command when it is not.
C12_StopCommandSignalsOutcome ==
    (last.op = "stop_fuzzer" /\ last.outcome # "CalledProcessError") =>
        /\ last.outcome = "ok"
        /\ IF DeviceReportsRunning
           THEN /\ display = <<StoppingMessage>>
                /\ KillsOf(last.cmds) = <<KillCmd(ListedPid(devOut, FuzzPair))>>
           ELSE /\ display = <<AlreadyStoppedMessage>>
                /\ KillsOf(last.cmds) = <<>>

-----------------------------------------------------------------------------
(* Claims about monitor() (under SpecMonitor and SpecMonitorLive) *)

\* C13: every evaluation of monitor()'s loop condition issues a new status
\* command; monitor() stays in its loop as long as that check finds the
\* fuzzer listed, goes on to the log fetch only after a check with a new
\* status command that found it not listed, and issues no fetch, removal or
\* symbolization before.
C13_MonitorFetchesOnlyAfterRefreshedStop ==
    /\ (mon.pc # "idle" /\ mon.polls > 0) => mon.cs = 1
    /\ (mon.pc = "poll" /\ mon.polls > 0) => (mon.running /\ mon.listed > 0)
    /\ (mon.pc = "fetch" \/ (mon.pc = "done" /\ ~mon.failed)) =>
            (mon.polls > 0 /\ mon.cs = 1 /\ ~mon.running /\ mon.listed <= 0)
    /\ mon.pc \in {"idle", "poll", "fetch"} =>
            (mon.cmds = <<>> /\ mon.symbolized = <<>> /\ mon.removed = {})

\* C13 witness: monitor() found the fuzzer running at one poll at least, and
\* has left its loop for the log fetch after a later poll.
C13_Witness ==
    mon.pc = "fetch" /\ mon.polls >= 2 /\ mon.cs = 1 /\ ~mon.running

\* C14: if the fuzzer is eventually gone from the status listing for good,
\* a monitor() call in its poll loop eventually terminates, without an error
\* unless a remote command failed.
C14_MonitorTerminatesStopped ==
    (<>[](~DeviceReportsRunning)) =>
        ((mon.pc = "poll") ~> (mon.pc = "done" /\ (mon.failed \/ mon.outcome = "ok")))

\* C15: a monitor() call that ends with no remote command failed, for a run
\* that left no log on the device, ends without an error and has written no
\* symbolized log.
C15_MonitorWithoutLogsCompletes ==
    (mon.pc = "done" /\ ~mon.failed /\ mon.devLogs = {}) =>
        (mon.outcome = "ok" /\ mon.symbolized = <<>>)

\* The log names in sorted order.
LogOrder == <<"fuzz-0.log", "fuzz-1.log">>

SortedLogs(logs) == SelectSeq(LogOrder, LAMBDA name : name \in logs)

\* C16: a monitor() call that ends with no remote command failed has
\* symbolized exactly the logs it retrieved from the device, once each, in
\* sorted name order with job indices 0, 1, ... and echo disabled, and has
\* removed none of the files that were in the output directory before.
C16_MonitorSymbolizesRetrievedLogs ==
    (mon.pc = "done" /\ ~mon.failed) =>
        /\ mon.outcome = "ok"
        /\ mon.symbolized =
              [i \in 1..Len(SortedLogs(mon.devLogs)) |->
                  [log |-> SortedLogs(mon.devLogs)[i], job |-> i - 1, echo |-> FALSE]]
        /\ mon.removed \cap mon.hostLogs = {}

-----------------------------------------------------------------------------
(* Claims about start() and the engine options (under SpecRepro) *)

\* The argument vector the documentation of start() describes: the package
\* URL, the options in key order (jobs only in the background), the corpus.
ExpectedStartArgv(fg) ==
    <<url>>
        \o << <<"-", "artifact_prefix", "=", "data/">>,
              <<"-", "dict", "=", "pkg/data/bar/dictionary">> >>
        \o (IF fg THEN <<>> ELSE << <<"-", "jobs", "=", "1">> >>)
        \o << <<"data/corpus/">> >>

RunsOf(cmds) == SelectSeq(cmds, LAMBDA c : c.name = "run")

\* C17: a start() call on a stopped fuzzer, with no extra inputs and no
\* remote command failing, issues the run command with the argument vector
\* URL, '-key=value' options in key order, 'data/corpus/'.
C17_StartArgumentVector ==
    (last.op = "start" /\ last.outcome # "CalledProcessError"
        /\ ~DeviceReportsRunning /\ libInputs = <<>>) =>
        RunsOf(last.cmds) = <<Cmd("run", ExpectedStartArgv(foreground))>>

CorpusArgsMessage == "Passing corpus arguments to libFuzzer is unsupported"

\* C18: a start() call on a stopped fuzzer with a non-empty list of extra
\* inputs ends with the 'Passing corpus arguments to libFuzzer is
\* unsupported' error and issues no run command.
C18_StartRejectsInputs ==
    (last.op = "start" /\ last.outcome # "CalledProcessError"
        /\ ~DeviceReportsRunning /\ libInputs # <<>>) =>
        (last.outcome = CorpusArgsMessage /\ RunsOf(last.cmds) = <<>>)

\* C19: a start() call on a stopped fuzzer, with no remote command failing,
\* spawns the process and returns; in the foreground it has run the
\* symbolization pipeline with echo enabled before, in the background it has
\* not run the pipeline.
C19_ForegroundStartSymbolizes ==
    (last.op = "start" /\ last.outcome # "CalledProcessError"
        /\ ~DeviceReportsRunning /\ libInputs = <<>>) =>
        /\ last.outcome = "ok"
        /\ Len(RunsOf(last.cmds)) = 1
        /\ foreground => (pipe.pc = "done" /\ echo)
        /\ ~foreground => pipe.pc = "ready"

\* The '-key=value' arguments of a command for the given key.
ArgsFor(cmd, key) ==
    {i \in 1..Len(cmd.argv) :
        Len(cmd.argv[i]) = 4 /\ cmd.argv[i][1] = "-" /\ cmd.argv[i][2] = key}

\* The command carries a '-jobs=...' option.
HasJobs(cmd) ==
    \E k \in 1..Len(cmd.argv) :
        k \in ArgsFor(cmd, "jobs")

\* C20: a _create call in the background issues its run command with a jobs
\* option, and the run command of every repro() call (which forces the
\* foreground) carries no jobs option unless the caller's libfuzzer_opts
\* supplies one.
C20_JobsOnlyInBackground ==
    /\ (last.op = "_create" /\ ~foreground) =>
            \A i \in 1..Len(last.cmds) : HasJobs(last.cmds[i])
    /\ last.op = "repro" =>
            \A i \in 1..Len(last.cmds) :
                (last.cmds[i].name = "run" /\ HasJobs(last.cmds[i])) =>
                    "jobs" \in DOMAIN given.libfuzzer_opts

-----------------------------------------------------------------------------
(* Claims about store() and repro() (under SpecRepro and SpecStore) *)

RECURSIVE Expanded(_, _, _)
\* The host files the patterns match, pattern by pattern, from the i-th on.
Expanded(patterns, glob, i) ==
    IF i > Len(patterns) THEN <<>>
    ELSE glob[patterns[i]] \o Expanded(patterns, glob, i + 1)

\* 'data/<basename>' of every file.
DataNames(files) == [i \in 1..Len(files) |-> <<"data", files[i][Len(files[i])]>>]

ScpsOf(cmds) == SelectSeq(cmds, LAMBDA c : c.name = "scp")

\* C21: a repro() call with a non-empty input list of which every pattern
\* matches a host file, and with no remote command failing, copies the files
\* of each pattern into the fuzzer's device data namespace, leaves
\* 'data/<basename>' of every copied file as the input list, leaves
\* foreground true, and issues exactly one run command, whose last arguments
\* are those paths.
C21_ReproCopiesInputs ==
    (last.op = "repro" /\ given.inputs # <<>> /\ last.outcome # "CalledProcessError"
        /\ \A i \in 1..Len(given.inputs) : given.glob[given.inputs[i]] # <<>>) =>
        /\ last.outcome = "ok"
        /\ ScpsOf(last.cmds) =
              [i \in 1..Len(given.inputs) |->
                  ScpCmd(given.glob[given.inputs[i]], scp_rpath(data_path("")))]
        /\ libInputs = DataNames(Expanded(given.inputs, given.glob, 1))
        /\ foreground
        /\ Len(RunsOf(last.cmds)) = 1
        /\ LET argv == RunsOf(last.cmds)[1].argv IN
           /\ Len(argv) >= Len(libInputs)
           /\ SubSeq(argv, Len(argv) - Len(libInputs) + 1, Len(argv)) = libInputs

\* C22: a store() call that completes returns the host files its patterns
\* match, pattern by pattern, and has copied exactly those with one copy
\* command, or issued no copy command when there is none; a repro() call in
\* which a store() returned nothing ends with 'No matching files' and issues
\* no run command.
C22_StoreReturnsTransferred ==
    /\ (last.op = "store" /\ last.outcome = "ok") =>
          /\ last.ret = Expanded(given.inputs, given.glob, 1)
          /\ ScpsOf(last.cmds) = IF last.ret = <<>> THEN <<>>
                                 ELSE <<ScpCmd(last.ret, scp_rpath(given.dst))>>
    /\ (last.op = "repro" /\ last.outcome # "CalledProcessError"
           /\ Len(ScpsOf(last.cmds)) < Len(given.inputs)) =>
          (last.outcome = NoMatchMessage /\ RunsOf(last.cmds) = <<>>)

\* C22 witness: a store() call with two patterns, both matching host files,
\* has copied and returned the files of both.
C22_Witness ==
    /\ last.op = "store" /\ last.outcome = "ok" /\ Len(given.inputs) = 2
    /\ given.inputs[1] # given.inputs[2]
    /\ given.glob[given.inputs[1]] # <<>> /\ given.glob[given.inputs[2]] # <<>>
    /\ Len(ScpsOf(last.cmds)) = 1

-----------------------------------------------------------------------------
(* Claims about guess_pid (under SpecGuess) *)

\* The line has the form '[<timestamp>][<pid>][<tid>][<name>] <data>' with
\* a numeric pid.
SyslogLineOf(line) ==
    Len(line) >= 4 /\ line[2] \in {"111", "222", "333"}

SyslogLinesAt == {i \in 1..Len(sysOut) : SyslogLineOf(sysOut[i])}

\* C23: a guess_pid() call whose dump command succeeds returns the pid in
\* the second bracketed field of the last line of the documented form, and -1
\* when the dump has no such line.
C23_GuessPidReturnsLastPid ==
    (last.op = "guess_pid" /\ last.outcome # "CalledProcessError") =>
        /\ last.outcome = "ok"
        /\ last.ret = IF SyslogLinesAt = {} THEN NotFound
                      ELSE LET i == CHOOSE i \in SyslogLinesAt : \A j \in SyslogLinesAt : j <= i
                           IN  IF sysOut[i][2] = "111" THEN 111
                               ELSE IF sysOut[i][2] = "222" THEN 222 ELSE 333


\* C24: getpid rebuilds the cache atomically: when the status command of a
\* getpid call fails, the failure propagates and the cache is left as it was
\* before the call (unpopulated if it was unpopulated, and still holding the
\* entry of the asked pair if it held one).
C24_FailedRefreshKeepsCache ==
    (last.op = "getpid" /\ last.outcome = "CalledProcessError") =>
        /\ pids.set = last.csBefore
        /\ (last.had => Cached(last.pair))


\* The raw lines written to the output log, by their position in the stream.
RawWritten ==
    LET raw == SelectSeq(pipe.out, LAMBDA w : w.kind = "line") IN
    [k \in 1..Len(raw) |-> raw[k].at]

\* The i-th entry of the output log is the block of the n-th symbolizer run.
SymRank(i) == Cardinality({j \in SymWrites : j <= i})

\* C25: Host.symbolize returns an empty result, and raises no failure, for
\* every symbolizer run that exits with a nonzero status (the block written
\* for such a run is empty), and the pipeline (no remote command failing)
\* then still writes every raw line of the stream to the output log, in order.
C25_FailedSymbolizerIsEmptyNotFatal ==
    pipe.pc = "done" =>
        /\ \A i \in SymWrites : SymRank(i) <= pipe.env.symFails => pipe.out[i].text = <<>>
        /\ pipe.symCalls = Cardinality(SymWrites)
        /\ pipe.env.fail = 0 => RawWritten = [k \in 1..Len(stream) |-> k]

\* C25 witness: a stream with a mutation marker whose symbolizer run exited
\* nonzero: an empty block was written, and every raw line too.
C25_Witness ==
    /\ pipe.pc = "done" /\ pipe.outcome = "ok" /\ pipe.env.fail = 0
    /\ pipe.env.symFails >= 1 /\ Len(stream) >= 2
    /\ \E i \in SymWrites : pipe.out[i].text = <<>>
    /\ RawWritten = [k \in 1..Len(stream) |-> k]


\* The names of the listing: those of its well-formed lines.
ListedNames == {LsName(lsOut[i]) : i \in WellFormedAt}

\* The name begins with the characters of one of the artifact prefixes.
HasArtifactPrefix(name) ==
    \E k \in 1..Len(ARTIFACT_PREFIXES) :
        LET p == ARTIFACT_PREFIXES[k] IN
        Len(name) >= Len(p) /\ \A j \in 1..Len(p) : name[j] = p[j]

\* C26: a list_artifacts call that returns (its listing command succeeded
\* and Device.ls returned the listing) returns exactly the listed names that
\* start with one of the artifact prefixes, each exactly once, and no name
\* without such a prefix.
C26_ListArtifactsExactlyPrefixed ==
    (lsres.op = "list_artifacts" /\ lsres.ok /\ lsres.outcome = "ok") =>
        LET arts == {n \in ListedNames : HasArtifactPrefix(n)} IN
        /\ {lsres.artifacts[k] : k \in 1..Len(lsres.artifacts)} = arts
        /\ Len(lsres.artifacts) = Cardinality(arts)

\* C26 witness: a listing with an artifact and a file that is none (its name
\* holds a prefix, but not at its start); the artifact alone was returned.
C26_Witness ==
    /\ lsres.op = "list_artifacts" /\ lsres.ok /\ lsres.outcome = "ok"
    /\ Cardinality(ListedNames) = 2
    /\ \E n \in ListedNames : ~HasArtifactPrefix(n) /\ startsAnywhere(n, ARTIFACT_PREFIXES[4])
    /\ Len(lsres.artifacts) = 1 /\ HasArtifactPrefix(lsres.artifacts[1])


-----------------------------------------------------------------------------
(* Claims about Host.fxpath (under SpecFx) and Host.read_fuzzers (under
   SpecCatalog) *)

\* The path is the source root or lies below it.
UnderRoot(root, path) ==
    \/ path = root
    \/ /\ Len(path) > Len(root)
       /\ \A k \in 1..Len(root) : path[k] = root[k]
       /\ path[Len(root) + 1] = "/"

\* The path is relative: it does not begin with '/'.
IsRelative(path) == path = <<>> \/ path[1] # "/"

\* C27: fxpath is idempotent and anchors exactly once: applying it to its own
\* result returns that result, and every relative path that does not lie
\* under the source root (one whose string merely begins with the root's
\* name, such as '<root>2', included) is returned joined under the source
\* root.
C27_FxpathIdempotentAndAnchored ==
    hostres.op = "fxpath" =>
        LET joined == PathJoinAll(hostres.args) IN
        /\ hostres.again = hostres.ret
        /\ (IsRelative(joined) /\ ~UnderRoot(hostres.root, joined)) =>
               /\ UnderRoot(hostres.root, hostres.ret)
               /\ hostres.ret = PathJoin2(hostres.root, joined)


\* s comes before t in lexicographic order: at the first position where they
\* differ s has ended or holds the smaller character.
LexBefore(s, t) ==
    \E k \in 1..Len(t) :
        /\ k <= Len(s) + 1
        /\ \A j \in 1..(k - 1) : s[j] = t[j]
        /\ (k = Len(s) + 1 \/ CharCode(s[k]) < CharCode(t[k]))

\* The pair p comes before q by (package, executable).
PairBefore(p, q) == LexBefore(p[1], q[1]) \/ (p[1] = q[1] /\ LexBefore(p[2], q[2]))

\* How often the list holds the pair.
TimesIn(list, pair) == Cardinality({k \in 1..Len(list) : list[k] = pair})

\* How often the records of the manifest hold the pair.
TimesRead(fuzz_specs, pair) ==
    Cardinality({ik \in (1..Len(fuzz_specs)) \X (1..MaxCatalog) :
                    /\ fuzz_specs[ik[1]].fuzzers_package = pair[1]
                    /\ ik[2] <= Len(fuzz_specs[ik[1]].fuzzers)
                    /\ fuzz_specs[ik[1]].fuzzers[ik[2]] = pair[2]})

\* C28: after a read_fuzzers call the catalog holds the (package, executable)
\* pairs of the manifest's records (next to those it held before the call),
\* each as often as the records give it, sorted lexicographically by
\* (package, executable); this holds after any number of calls.
C28_CatalogSortedPairs ==
    hostres.op = "read_fuzzers" =>
        /\ \A i, j \in 1..Len(fuzzers) : i < j => ~PairBefore(fuzzers[j], fuzzers[i])
        /\ \A pair \in PackageNames \X ExecutableNames :
              TimesIn(fuzzers, pair) =
                  TimesIn(hostres.before, pair) + TimesRead(hostres.args, pair)
        /\ \A k \in 1..Len(fuzzers) : fuzzers[k] \in PackageNames \X ExecutableNames

\* C28 witness: a second call, on a record whose executables are listed out
\* of order and whose package sorts before one of the catalog: the appended
\* pairs were moved.
C28_Witness ==
    /\ hostres.op = "read_fuzzers" /\ hostres.before # <<>>
    /\ Len(hostres.args) = 1 /\ Len(hostres.args[1].fuzzers) = 2
    /\ PairBefore(<<hostres.args[1].fuzzers_package, hostres.args[1].fuzzers[2]>>,
                  <<hostres.args[1].fuzzers_package, hostres.args[1].fuzzers[1]>>)
    /\ PairBefore(fuzzers[1], hostres.before[1])
    /\ Len(fuzzers) = Len(hostres.before) + 2


-----------------------------------------------------------------------------
(* Further claims about the symbolization pipeline (under SpecPipe) *)

\* The guess_pid calls: dump_log calls carrying '--only'.
GuessCalls ==
    {i \in 1..Len(pipe.cmds) :
        /\ pipe.cmds[i].name = "log_listener"
        /\ \E k \in 1..Len(pipe.cmds[i].argv) : pipe.cmds[i].argv[k][1] = "--only"}

\* The '==<digits>==' lines up to and including the first mutation marker.
PidLinesBeforeMarker ==
    {i \in 1..Len(stream) :
        /\ stream[i].head = "pid"
        /\ \A m \in MutationMarkers : i <= m}

\* C29: the pid that filters the fetched syslog is the one of the most recent
\* '==<digits>==' line up to the first mutation marker, and guess_pid is
\* called only at a mutation marker, when no such line gave a positive pid,
\* and before any symbolization of this stream (so before every pid-filtered
\* syslog fetch).
C29_PidSourceAndGuessOnlyBeforeSymbolization ==
    pipe.pc = "done" =>
        /\ (PidDumps # {} /\ PidLinesBeforeMarker # {}) =>
              LET d == CHOOSE d \in PidDumps : \A e \in PidDumps : d <= e
                  l == CHOOSE l \in PidLinesBeforeMarker :
                           \A k \in PidLinesBeforeMarker : k <= l
              IN  pipe.cmds[d].argv[5] = <<"--pid", stream[l].text>>
        /\ GuessCalls # {} => (MutationMarkers # {} /\ PidLinesBeforeMarker = {})
        /\ \A g \in GuessCalls : \A d \in PidDumps : g < d


\* C30: the pipeline (no remote command failing) appends every line of the
\* stream to the output log, in input order; every symbolized block is
\* written immediately before the mutation-marker line that triggered it,
\* the first of them before the first mutation marker of the stream; with
\* echo the display gets the same entries in the same order (their text
\* stripped of surrounding whitespace), without echo it gets nothing.
C30_RawLinesInOrderBlockBeforeMarker ==
    pipe.pc = "done" =>
        /\ \E n \in 0..Len(stream) : RawWritten = [k \in 1..n |-> k]
        /\ pipe.env.fail = 0 => RawWritten = [k \in 1..Len(stream) |-> k]
        /\ \A i \in SymWrites :
              /\ i < Len(pipe.out)
              /\ pipe.out[i + 1] = Written("line", pipe.out[i].at, <<>>)
              /\ pipe.out[i].at \in MutationMarkers
              /\ (\A j \in SymWrites : i <= j) =>
                     \A m \in MutationMarkers : pipe.out[i].at <= m
        /\ pipe.display = IF echo THEN [k \in 1..Len(pipe.out) |-> Echoed(pipe.out[k])]
                          ELSE <<>>

\* C30 witness: a stream with lines before and after its first mutation
\* marker, echoed: the block sits between the lines, in the log and on the
\* display.
C30_Witness ==
    /\ pipe.pc = "done" /\ pipe.outcome = "ok" /\ echo
    /\ Len(stream) = 3 /\ MutationMarkers = {2}
    /\ Len(pipe.out) = 4 /\ SymWrites = {2} /\ pipe.out[2].text # <<>>
    /\ Len(pipe.display) = 4 /\ pipe.display[2].kind = "sym"


\* C31: the pipeline, when it completes, returns true if and only if the
\* stream held a mutation-marker line (a symbolization occurred), and a
\* symbolize_log call on the stream returns that same value to its caller.
C31_ReturnsWhetherSymbolized ==
    /\ (pipe.pc = "done" /\ pipe.outcome = "ok") => (pipe.ret <=> MutationMarkers # {})
    /\ last.op = "symbolize_log" =>
           (last.outcome = "ok" /\ (last.ret <=> MutationMarkers # {}))


-----------------------------------------------------------------------------
(* Further claims about start() (under SpecRepro) *)

\* The positions in cmds of the commands with the given name that carry the
\* given argument.
CmdsWith(cmds, name, arg) ==
    {i \in 1..Len(cmds) :
        cmds[i].name = name /\ \E k \in 1..Len(cmds[i].argv) : cmds[i].argv[k] = arg}

\* C32: a start() call on a stopped fuzzer, with no extra inputs and no
\* remote command failing, is successful; it has removed the stale
\* 'fuzz-*.log' files of the device data namespace and created the corpus
\* directory on the device before issuing the run command, and has issued
\* the run command exactly once.
C32_StartCleansBeforeRun ==
    (last.op = "start" /\ last.outcome # "CalledProcessError"
        /\ ~DeviceReportsRunning /\ libInputs = <<>>) =>
        /\ last.outcome = "ok"
        /\ Len(RunsOf(last.cmds)) = 1
        /\ \E r \in 1..Len(last.cmds) :
              /\ last.cmds[r].name = "run"
              /\ \E i \in CmdsWith(last.cmds, "rm", data_path("fuzz-*.log")) : i < r
              /\ \E j \in CmdsWith(last.cmds, "mkdir", data_path("corpus")) : j < r


-----------------------------------------------------------------------------
(* Claims about the commands (under SpecCommand) *)

\* The positions in the invocation's calls of those with the given name.
CallsOf(name) == {i \in 1..Len(cmdres.calls) : cmdres.calls[i].name = name}

\* C33: an invocation of the 'start' command outside monitor mode runs
\* start() and, when start() has returned without error and the run is in
\* the background, spawns the monitoring re-invocation after it; a
\* foreground run spawns none; an invocation in monitor mode calls monitor()
\* only and never start().
C33_MonitorSpawnedAfterBackgroundStart ==
    (cmdres.op = "start_fuzzer" /\ cmdres.pc = "done") =>
        /\ ~cmdres.args.monitor =>
              /\ \/ cmdres.calls = <<Call("start", "")>>
                 \/ cmdres.calls = <<Call("start", ""), Call("spawn", "start --monitor")>>
              /\ CallsOf("spawn") # {} <=> (cmdres.outcome = "ok" /\ ~cmdres.args.foreground)
        /\ cmdres.args.monitor => cmdres.calls = <<Call("monitor", "")>>

\* C34: an invocation of the 'analyze' command adds every explicit corpus
\* first, in the order given, then (unless the local flag is set) the remote
\* bundle, and calls analyze() after all of them.
C34_AnalyzeAugmentsCorpusInOrder ==
    cmdres.op = "analyze_fuzzer" =>
        LET adds == SelectSeq(cmdres.calls,
                              LAMBDA x : x.name \in {"add_from_host", "add_from_gcs", "analyze"})
        IN  adds = [i \in 1..Len(cmdres.args.corpora) |->
                        Call("add_from_host", cmdres.args.corpora[i])]
                       \o (IF cmdres.args.local THEN <<>> ELSE <<Call("add_from_gcs", GcsUrl)>>)
                       \o <<Call("analyze", "")>>


-----------------------------------------------------------------------------
(* Claims about monitor() and the device logs (under SpecMonitor) *)

RemovesOf(cmds) == {i \in 1..Len(cmds) : cmds[i].name = "rm"}

\* C35: monitor() issues the removal of the device logs only after a fetch
\* that succeeded: a monitor() call whose fetch has failed ends with that
\* failure and has issued no remove command.
C35_MonitorRemovesOnlyAfterFetch ==
    /\ (mon.pc = "done" /\ ~mon.failed /\ ScpsOf(mon.cmds) = <<>>) =>
            (mon.outcome # "ok" /\ RemovesOf(mon.cmds) = {})
    /\ \A i \in RemovesOf(mon.cmds) :
            \E j \in 1..(i - 1) : mon.cmds[j].name = "scp"

\* C35 witness: monitor() has left its poll loop with logs on the device, its
\* fetch has failed, and the call has ended with that failure.
C35_Witness ==
    /\ mon.pc = "done" /\ ~mon.failed /\ mon.polls > 0
    /\ mon.devLogs # {}
    /\ mon.outcome = "TypeError"
    /\ last.op = "monitor_fetch"


-----------------------------------------------------------------------------
(* Claims about symbolize_log and the latest-log link (under SpecPipe) *)

\* C36: a symbolize_log call completes, and after it the link
\* 'fuzz-latest.log' of the output directory points to the symbolized log
\* the call has written.
C36_LatestLinkFollowsSymbolizeLog ==
    last.op = "symbolize_log" =>
        /\ last.outcome = "ok"
        /\ last.refresh     \* the symbolized log of this call was written
        /\ last.had         \* and host.link(filename_out, .../fuzz-latest.log) was called


-----------------------------------------------------------------------------
(* Claims about the engine options of _create (under SpecCreate) *)

\* C37: in every command _create builds, an engine option the caller has
\* supplied appears with the caller's value, whatever default the key has
\* (artifact_prefix, dict, jobs, the debug handle_* options), and every key
\* appears at most once.
C37_CallerOptionsOverrideDefaults ==
    \A n \in 1..Len(last.cmds) : last.cmds[n].name = "run" =>
        LET cmd == last.cmds[n] IN
        /\ \A k \in DOMAIN given.libfuzzer_opts :
              \E i \in ArgsFor(cmd, k) : cmd.argv[i] = <<"-", k, "=", given.libfuzzer_opts[k]>>
        /\ \A k \in CallerKeys \cup DEBUG_OPTIONS : Cardinality(ArgsFor(cmd, k)) <= 1

\* C37 witness: a background _create with the debug flag set, for which the
\* caller has supplied jobs, handle_segv and artifact_prefix, all three with
\* values other than the defaults.
C37_Witness ==
    /\ last.op = "_create" /\ ~foreground /\ given.debug
    /\ {"jobs", "handle_segv", "artifact_prefix"} \subseteq DOMAIN given.libfuzzer_opts
    /\ given.libfuzzer_opts["jobs"] = "2"
    /\ given.libfuzzer_opts["handle_segv"] = "2"
    /\ given.libfuzzer_opts["artifact_prefix"] = "out/"
    /\ "handle_bus" \in DOMAIN options


-----------------------------------------------------------------------------
(* Claims about is_running and the last-known pid (under Spec) *)

\* C38: an is_running call returns true exactly when the pid getpid returned
\* is greater than zero, and after the call the last-known pid of the Fuzzer
\* is that pid; a Fuzzer just constructed has no last-known pid and has
\* issued no device command.
C38_IsRunningRecordsPid ==
    /\ (last.op = "is_running" /\ last.outcome = "ok") =>
            /\ last.running <=> last.ret > 0
            /\ fpid = last.ret
            /\ last.ret = IF last.cs > 0 THEN ListedPid(devOut, FuzzPair)
                          ELSE MapGet(pids.map, FuzzPair, NotFound)
    /\ last.op = "init" => (fpid = NoPid /\ ~csEver /\ pids = NonePids /\ last.cmds = <<>>)

\* C38 witness: an is_running call that listed the processes has found the
\* fuzzer and returned true.
C38_Witness ==
    /\ last.op = "is_running" /\ last.outcome = "ok" /\ last.cs > 0
    /\ last.running /\ fpid > 0


-----------------------------------------------------------------------------
(* Claims about Device.fetch and the validating setters (under SpecSetters) *)

\* C39: a Device.fetch call whose destination is not an existing directory of
\* the host fails and issues no copy command; a value the ssh_verbosity
\* setter rejects (one outside 0..3) or the output setter rejects (one that
\* is not a directory) leaves the previous value in place.
C39_RejectedInputsChangeNothing ==
    /\ (last.op = "fetch" /\ given.dst \notin attrs.dirs) =>
            (last.outcome = "ValueError" /\ last.cmds = <<>>)
    /\ (last.op = "set_ssh_verbosity" /\ given.inputs[1] \notin 0..3) =>
            (last.outcome = "ValueError" /\ attrs.ssh_verbosity = last.ret)
    /\ (last.op = "set_output" /\ given.dst \notin attrs.dirs) =>
            (last.outcome = "ValueError" /\ attrs.output = last.ret)

\* C39 witness: the ssh_verbosity setter has rejected 4 while the value was
\* 2, a value an earlier call had set.
C39_Witness ==
    /\ last.op = "set_ssh_verbosity" /\ given.inputs = <<4>>
    /\ last.outcome = "ValueError"
    /\ last.ret = 2 /\ attrs.ssh_verbosity = 2

====
